---- MODULE Spec2Model ----
(***************************************************************************)
(* Nestfinder: the scoring and ranking pipeline of CoordinatorAgent.search *)
(* (backend/agents/coordinator.py) with the agents and the scoring helpers *)
(* it calls (backend/agents/{listing,commute,neighborhood,budget}.py,      *)
(* backend/scoring.py).                                                    *)
(*                                                                         *)
(* Arithmetic.  Python computes the weights and the percentages in binary  *)
(* floating point; the model computes them in exact rational arithmetic:   *)
(* weights are integers counted in hundredths, a quotient is an integer    *)
(* division applied at the place where the code applies int().             *)
(***************************************************************************)
EXTENDS Integers, Sequences, FiniteSets, TLC

(***************************************************************************)
(* Bounds of the model.                                                    *)
(***************************************************************************)
MaxInventory == 12      \* listings loaded by the ListingAgent
MaxRuns == 2            \* searches served one after the other

(***************************************************************************)
(* Program constants.                                                      *)
(***************************************************************************)
TopK == 10              \* final_recommendations[:10]
ListingLimit == 30      \* find_listings(..., limit=30)
None == -1              \* Python's None in an Optional[int] field
NoneStr == "<None>"     \* Python's None in an Optional[str] field

Min(a, b) == IF a <= b THEN a ELSE b
Max(a, b) == IF a >= b THEN a ELSE b

\* int(n / d) for d > 0: Python's int() truncates toward zero.
TruncDiv(n, d) == IF n >= 0 THEN n \div d ELSE -((-n) \div d)

Range(f) == {f[x] : x \in DOMAIN f}
In(x, s) == \E k \in 1..Len(s) : s[k] = x
\* s[:n]
Prefix(s, n) == SubSeq(s, 1, Min(n, Len(s)))

(***************************************************************************)
(* Python floats.  A float is an IEEE-754 binary64 number, held as         *)
(* [neg, man, exp]: the value (-1)^neg * man * 2^exp, with man a natural   *)
(* number written as its sequence of digits in base 2^14, least            *)
(* significant first (<<>> is zero).  Every operation computes the exact   *)
(* result and rounds it to 53 significant bits, to nearest, ties to even.  *)
(***************************************************************************)
\* The bits of a digit, and the base.
DigitBits == 14
Base == 2 ^ DigitBits

\* The significant bits of a binary64.
Precision == 53

RECURSIVE NatDigits(_)
\* The digits of the natural number n.
NatDigits(n) == IF n = 0 THEN <<>> ELSE <<n % Base>> \o NatDigits(n \div Base)

RECURSIVE DigitsNat(_)
\* The natural number of a sequence of digits.
DigitsNat(digits) ==
    IF digits = <<>> THEN 0 ELSE Head(digits) + Base * DigitsNat(Tail(digits))

RECURSIVE Strip(_)
\* digits without its leading zeros.
Strip(digits) ==
    IF digits # <<>> /\ digits[Len(digits)] = 0
    THEN Strip(SubSeq(digits, 1, Len(digits) - 1))
    ELSE digits

RECURSIVE BitLength(_)
\* The number of bits of the natural number n.
BitLength(n) == IF n = 0 THEN 0 ELSE 1 + BitLength(n \div 2)

\* The number of bits of digits, which has no leading zero.
BitLen(digits) ==
    IF digits = <<>> THEN 0
    ELSE DigitBits * (Len(digits) - 1) + BitLength(digits[Len(digits)])

\* Bit j (from 0) of digits.
Bit(digits, j) ==
    IF j < 0 \/ j \div DigitBits >= Len(digits) THEN 0
    ELSE (digits[j \div DigitBits + 1] \div 2 ^ (j % DigitBits)) % 2

\* Whether a bit of digits below bit j is 1.
AnyBelow(digits, j) ==
    \E k \in 1..Len(digits) :
        \/ k <= j \div DigitBits /\ digits[k] # 0
        \/ k = j \div DigitBits + 1 /\ digits[k] % 2 ^ (j % DigitBits) # 0

RECURSIVE MulSmall(_, _, _)
\* x * c + carry, for a natural number c < 2^16
MulSmall(x, c, carry) ==
    IF x = <<>> THEN NatDigits(carry)
    ELSE LET t == Head(x) * c + carry
         IN  <<t % Base>> \o MulSmall(Tail(x), c, t \div Base)

\* digits * 2^k
ShiftLeft(digits, k) ==
    [j \in 1..(k \div DigitBits) |-> 0]
        \o MulSmall(digits, 2 ^ (k % DigitBits), 0)

\* digits \div 2^k
ShiftRight(digits, k) ==
    LET whole == k \div DigitBits
        bits == k % DigitBits
        at(j) == IF j <= Len(digits) THEN digits[j] ELSE 0
    IN  Strip([j \in 1..(Len(digits) - whole) |->
                  at(j + whole) \div 2 ^ bits
                  + (at(j + whole + 1) % 2 ^ bits) * 2 ^ (DigitBits - bits)])

RECURSIVE AddDigits(_, _, _)
\* x + y + carry
AddDigits(x, y, carry) ==
    IF x = <<>> /\ y = <<>> THEN NatDigits(carry)
    ELSE LET a == IF x = <<>> THEN 0 ELSE Head(x)
             b == IF y = <<>> THEN 0 ELSE Head(y)
             t == a + b + carry
         IN  <<t % Base>> \o AddDigits(IF x = <<>> THEN x ELSE Tail(x),
                                       IF y = <<>> THEN y ELSE Tail(y),
                                       t \div Base)

RECURSIVE SubDigits(_, _, _)
\* x - y - borrow, for x >= y + borrow
SubDigits(x, y, borrow) ==
    IF x = <<>> THEN <<>>
    ELSE LET b == IF y = <<>> THEN 0 ELSE Head(y)
             t == Head(x) - b - borrow
         IN  <<(t + Base) % Base>>
                 \o SubDigits(Tail(x), IF y = <<>> THEN y ELSE Tail(y),
                              IF t < 0 THEN 1 ELSE 0)

\* x < y, for x and y without leading zeros
LessDigits(x, y) ==
    \/ Len(x) < Len(y)
    \/ /\ Len(x) = Len(y)
       /\ \E k \in 1..Len(x) :
              /\ x[k] < y[k]
              /\ \A j \in (k + 1)..Len(x) : x[j] = y[j]

\* The float nearest to (-1)^neg * (man + f) * 2^exp, where f = 0, or
\* 0 < f < 1 when sticky: ties go to the even significand.
RoundFloat(neg, man, exp, sticky) ==
    LET drop == BitLen(man) - Precision
        kept == ShiftRight(man, drop)
        rest == sticky \/ AnyBelow(man, drop - 1)
        up == Bit(man, drop - 1) = 1 /\ (rest \/ Bit(kept, 0) = 1)
        next == AddDigits(kept, <<>>, 1)
    IN  IF drop <= 0 THEN [neg |-> neg, man |-> man, exp |-> exp]
        ELSE IF ~up THEN [neg |-> neg, man |-> kept, exp |-> exp + drop]
        ELSE IF BitLen(next) > Precision
             THEN [neg |-> neg, man |-> ShiftRight(next, 1),
                   exp |-> exp + drop + 1]
        ELSE [neg |-> neg, man |-> next, exp |-> exp + drop]

RECURSIVE DivDigits(_, _, _, _)
\* The quotient (man + r / b) * 2^(-nfrac) carried on, one digit at a
\* time, until it is exact or has two bits more than a float keeps.
DivDigits(man, r, b, nfrac) ==
    IF r = 0 \/ BitLen(man) >= Precision + 2
    THEN [man |-> man, exp |-> -nfrac, sticky |-> r # 0]
    ELSE LET digit == (r * Base) \div b
         IN  DivDigits(IF man = <<>> /\ digit = 0 THEN man
                       ELSE <<digit>> \o man,
                       (r * Base) % b, b, nfrac + DigitBits)

\* a / b for the ints a and b, 0 < b < 2^17
FloatDiv(a, b) ==
    LET n == IF a < 0 THEN -a ELSE a
        q == DivDigits(NatDigits(n \div b), n % b, b, 0)
    IN  RoundFloat(a < 0, q.man, q.exp, q.sticky)

\* x * c for a float x and the int c, 0 < c < 2^16
FloatTimes(x, c) == RoundFloat(x.neg, MulSmall(x.man, c, 0), x.exp, FALSE)

\* c + x for the int c and a float x, not rounded
ExactPlus(c, x) ==
    LET exp == IF x.exp < 0 THEN x.exp ELSE 0
        xs == Strip(ShiftLeft(x.man, x.exp - exp))
        cs == Strip(ShiftLeft(NatDigits(IF c < 0 THEN -c ELSE c), -exp))
    IN  IF (c < 0) = x.neg \/ xs = <<>> \/ cs = <<>>
        THEN [neg |-> IF cs = <<>> THEN x.neg ELSE c < 0,
              man |-> Strip(AddDigits(xs, cs, 0)), exp |-> exp]
        ELSE IF LessDigits(xs, cs)
             THEN [neg |-> c < 0, man |-> Strip(SubDigits(cs, xs, 0)),
                   exp |-> exp]
        ELSE [neg |-> x.neg, man |-> Strip(SubDigits(xs, cs, 0)), exp |-> exp]

\* c + x for the int c and a float x
FloatPlus(c, x) ==
    LET sum == ExactPlus(c, x)
    IN  RoundFloat(sum.neg, sum.man, sum.exp, FALSE)

\* x < c for a float x and the int c
FloatLess(x, c) ==
    LET d == ExactPlus(-c, x) IN d.neg /\ d.man # <<>>

\* x <= c for a float x and the int c
FloatLeq(x, c) ==
    LET d == ExactPlus(-c, x) IN d.neg \/ d.man = <<>>

\* int(x): the float x truncated toward zero
FloatTrunc(x) ==
    LET n == IF x.exp >= 0 THEN DigitsNat(ShiftLeft(x.man, x.exp))
             ELSE DigitsNat(ShiftRight(x.man, -x.exp))
    IN  IF x.neg THEN -n ELSE n

(***************************************************************************)
(* backend/scoring.py                                                      *)
(***************************************************************************)

\* Fault variant of calculate_budget_score: a price above the market
\* average is scored as one as far below it.
BudgetScoreByDistance(price, market_average) ==
    IF market_average <= 0 THEN 50
    ELSE LET difference_percent ==
                 FloatTimes(FloatDiv(IF price > market_average
                                     THEN price - market_average
                                     ELSE market_average - price,
                                     market_average),
                            100)
             score == FloatPlus(70, difference_percent)
         IN  Max(0, Min(100, FloatTrunc(score)))

\* calculate_budget_score: 70 + ((market - price) / market) * 100 in
\* floats, int(), clamped to [0, 100]; 50 when there is no market average.
calculate_budget_score(price, market_average) ==
    IF market_average <= 0 THEN 50
    ELSE LET difference_percent ==
                 FloatTimes(FloatDiv(market_average - price, market_average),
                            100)
             score == FloatPlus(70, difference_percent)
         IN  Max(0, Min(100, FloatTrunc(score)))

\* Fault variant of calculate_amenity_score: parking counts whether or not
\* it is a priority.
AmenityScoreUnprioritized(apartment, priorities) ==
    LET pet == IF In("pet_friendly", priorities) /\ apartment.pet_friendly
               THEN 20 ELSE 0
        park == IF apartment.parking_included THEN 20 ELSE 0
        laundry == IF In("laundry", priorities)
                   THEN (IF apartment.laundry_type = "in_unit" THEN 20
                         ELSE IF apartment.laundry_type = "in_building" THEN 10
                         ELSE 0)
                   ELSE 0
        gym == IF In("gym", priorities) /\ "gym" \in apartment.amenities
               THEN 15 ELSE 0
    IN  Min(100, 50 + pet + park + laundry + gym)

\* calculate_amenity_score: base 50, a bonus for each prioritized feature
\* the apartment has, capped at 100.
calculate_amenity_score(apartment, priorities) ==
    LET pet == IF In("pet_friendly", priorities) /\ apartment.pet_friendly
               THEN 20 ELSE 0
        park == IF In("parking", priorities) /\ apartment.parking_included
                THEN 20 ELSE 0
        laundry == IF In("laundry", priorities)
                   THEN (IF apartment.laundry_type = "in_unit" THEN 20
                         ELSE IF apartment.laundry_type = "in_building" THEN 10
                         ELSE 0)
                   ELSE 0
        gym == IF In("gym", priorities) /\ "gym" \in apartment.amenities
               THEN 15 ELSE 0
    IN  Min(100, 50 + pet + park + laundry + gym)

Axes == <<"commute", "neighborhood", "budget", "amenities">>

\* The weights before the boosts, in hundredths (scoring.py lines 73-88).
BaseWeights(commute_score, has_commute) ==
    IF has_commute /\ commute_score # None
    THEN [commute |-> 25, neighborhood |-> 25, budget |-> 25, amenities |-> 25]
    ELSE [commute |-> 0, neighborhood |-> 35, budget |-> 35, amenities |-> 30]

\* priority_boost = 0.15, in hundredths.
PriorityBoost == 15

\* Fault variant of Boost: every priority boosts as much as the first.
BoostFlat(i) == PriorityBoost

\* boost = priority_boost * (3 - i) / 3 for the 0-based index i.
Boost(i) == (PriorityBoost * (3 - i)) \div 3

\* Fault variant of BoostAxis: "short_commute" boosts the commute weight
\* whether or not the search has a destination.
BoostAxisAnyCommute(priority, has_commute) ==
    IF priority = "short_commute" THEN "commute"
    ELSE IF priority \in {"safe_area", "walkable", "nightlife", "quiet_area"}
         THEN "neighborhood"
    ELSE IF priority = "low_price" THEN "budget"
    ELSE IF priority \in {"parking", "gym", "laundry", "pet_friendly"}
         THEN "amenities"
    ELSE "none"

\* The axis whose weight a priority tag raises ("none": no branch taken).
BoostAxis(priority, has_commute) ==
    IF priority = "short_commute" /\ has_commute THEN "commute"
    ELSE IF priority \in {"safe_area", "walkable", "nightlife", "quiet_area"}
         THEN "neighborhood"
    ELSE IF priority = "low_price" THEN "budget"
    ELSE IF priority \in {"parking", "gym", "laundry", "pet_friendly"}
         THEN "amenities"
    ELSE "none"

RECURSIVE ApplyBoosts(_, _, _, _)
\* The loop over enumerate(priorities[:3]), from 0-based index i on.
ApplyBoosts(weights, priorities, i, has_commute) ==
    IF i >= Min(3, Len(priorities)) THEN weights
    ELSE LET axis == BoostAxis(priorities[i + 1], has_commute)
             next == IF axis = "none" THEN weights
                     ELSE [weights EXCEPT ![axis] = @ + Boost(i)]
         IN  ApplyBoosts(next, priorities, i + 1, has_commute)

WeightTotal(w) == w.commute + w.neighborhood + w.budget + w.amenities

\* Fault variant of Renormalize: the boosted weights are used as they are.
RenormalizeSkipped(w) == [num |-> w, den |-> 100]

\* weights = {k: v / total}: each weight is num[k] / den.  When total is
\* not positive the code leaves the weights as they are (hundredths).
Renormalize(w) ==
    IF WeightTotal(w) > 0 THEN [num |-> w, den |-> WeightTotal(w)]
    ELSE [num |-> w, den |-> 100]

\* The weights calculate_overall_score multiplies with the scores.
Weights(commute_score, priorities, has_commute) ==
    Renormalize(ApplyBoosts(BaseWeights(commute_score, has_commute),
                            priorities, 0, has_commute))

\* calculate_overall_score: int() of the weighted sum.
calculate_overall_score(commute_score, neighborhood_score, budget_score, amenity_score, priorities, has_commute) ==
    LET w == Weights(commute_score, priorities, has_commute)
        safe_commute == IF commute_score # None /\ has_commute
                        THEN commute_score ELSE 0
    IN  TruncDiv(safe_commute * w.num.commute
                 + neighborhood_score * w.num.neighborhood
                 + budget_score * w.num.budget
                 + amenity_score * w.num.amenities, w.den)

Headlines == [commute |-> "Best for Commuters",
              neighborhood |-> "Best Neighborhood",
              budget |-> "Best Value",
              amenities |-> "Best Amenities"]

\* `filtered_scores[k] or 0`
OrZero(x) == IF x = None THEN 0 ELSE x

\* Fault variant of BestCategory: of the keys with the highest value the
\* last one is taken.
BestCategoryLast(scores, keys) ==
    LET isBest(k) == \A j \in 1..Len(keys) :
                        OrZero(scores[keys[j]]) <= OrZero(scores[keys[k]])
        last == CHOOSE k \in 1..Len(keys) :
                    isBest(k) /\ \A j \in (k + 1)..Len(keys) : ~isBest(j)
    IN  keys[last]

\* max(filtered_scores, key=...): the first key, in the dict's insertion
\* order, whose value no other key exceeds.
BestCategory(scores, keys) ==
    LET isBest(k) == \A j \in 1..Len(keys) :
                        OrZero(scores[keys[j]]) <= OrZero(scores[keys[k]])
        first == CHOOSE k \in 1..Len(keys) :
                    isBest(k) /\ \A j \in 1..(k - 1) : ~isBest(j)
    IN  keys[first]

generate_headline(rank, scores, priorities, has_commute) ==
    IF rank = 1 THEN "Best Overall Match"
    ELSE LET keys == IF ~has_commute \/ scores.commute = None
                     THEN Tail(Axes) ELSE Axes
         IN  Headlines[BestCategory(scores, keys)]

Opt(cond, s) == IF cond THEN <<s>> ELSE <<>>

\* f"Great location in {apartment.neighborhood}"
GreatLocationIn(neighborhood) ==
    CASE neighborhood = "Centretown" -> "Great location in Centretown"
      [] neighborhood = "Vanier" -> "Great location in Vanier"
      [] neighborhood = "Kanata" -> "Great location in Kanata"
      [] OTHER -> "Great location in Ottawa"

generate_match_reasons(apartment, scores, priorities) ==
    LET reasons ==
            Opt(scores.commute # None /\ scores.commute >= 80,
                "Excellent commute time")
         \o Opt(scores.commute # None /\ scores.commute < 80
                /\ scores.commute >= 60, "Good commute time")
         \o Opt(scores.budget >= 80, "Great value for money")
         \o Opt(scores.budget < 80 /\ scores.budget >= 60, "Reasonably priced")
         \o Opt(scores.neighborhood >= 80,
                GreatLocationIn(apartment.neighborhood))
         \o Opt(In("pet_friendly", priorities) /\ apartment.pet_friendly,
                "Pet-friendly")
         \o Opt(In("parking", priorities) /\ apartment.parking_included,
                "Parking included")
         \o Opt(apartment.laundry_type = "in_unit", "In-unit laundry")
    IN  Prefix(reasons, 4)

\* Fault variant of generate_concerns: the list is returned whole.
ConcernsUncapped(apartment, scores, priorities) ==
    Opt(scores.commute # None /\ scores.commute < 50, "Longer commute")
 \o Opt(scores.budget < 50, "Above market price")
 \o Opt(scores.neighborhood < 50, "Neighborhood may not match preferences")
 \o Opt(In("pet_friendly", priorities) /\ ~apartment.pet_friendly,
        "No pets allowed")
 \o Opt(In("parking", priorities) /\ ~apartment.parking_included,
        "No parking included")
 \o Opt(In("laundry", priorities) /\ apartment.laundry_type = "none",
        "No laundry facilities")

generate_concerns(apartment, scores, priorities) ==
    LET concerns ==
            Opt(scores.commute # None /\ scores.commute < 50, "Longer commute")
         \o Opt(scores.budget < 50, "Above market price")
         \o Opt(scores.neighborhood < 50,
                "Neighborhood may not match preferences")
         \o Opt(In("pet_friendly", priorities) /\ ~apartment.pet_friendly,
                "No pets allowed")
         \o Opt(In("parking", priorities) /\ ~apartment.parking_included,
                "No parking included")
         \o Opt(In("laundry", priorities) /\ apartment.laundry_type = "none",
                "No laundry facilities")
    IN  Prefix(concerns, 3)

(***************************************************************************)
(* Listings.  An Apartment is a record of the fields the pipeline reads:   *)
(*   id, neighborhood, price, bedrooms, sqft, amenities, pet_friendly,     *)
(*   parking_included, laundry_type, place.                                *)
(* sqft is what the scraped JSON held: [tag |-> "int", val |-> n], or      *)
(* [tag |-> "str"] for a text value such as "650 sqft", which the          *)
(* ListingAgent passes through unparsed.  place stands for (lat, lng): the *)
(* ListingAgent derives the coordinates from the neighborhood name alone   *)
(* (_get_coords), "none" is lat = lng = None.                              *)
(***************************************************************************)
IntSqft(n) == [tag |-> "int", val |-> n]
StrSqft == [tag |-> "str", val |-> 0]

\* ListingAgent._get_coords: the place the coordinates of a listing name.
\* The first key of the table contained in the lowercased name,
\* else downtown Ottawa.
get_coords(neighborhood) ==
    CASE neighborhood = "Centretown" -> "centretown"
      [] neighborhood = "Vanier" -> "vanier"
      [] neighborhood = "Kanata" -> "kanata"
      [] OTHER -> "downtown"

\* The scraped listings the inventory is drawn from.
Catalog == <<
    [neighborhood |-> "Centretown", price |-> 1600, bedrooms |-> 1,
     sqft |-> IntSqft(620), amenities |-> {"pet friendly", "gym", "laundry"}],
    [neighborhood |-> "Vanier", price |-> 1500, bedrooms |-> 1,
     sqft |-> IntSqft(500), amenities |-> {"parking"}],
    [neighborhood |-> "Kanata", price |-> 2000, bedrooms |-> 2,
     sqft |-> IntSqft(900), amenities |-> {"parking", "pets ok", "laundry"}],
    [neighborhood |-> "Centretown", price |-> 2400, bedrooms |-> 2,
     sqft |-> IntSqft(650), amenities |-> {}],
    [neighborhood |-> "Ottawa", price |-> 1700, bedrooms |-> 1,
     sqft |-> IntSqft(500), amenities |-> {"gym"}] >>

\* `word in a.lower()` for the amenity strings of the catalog.
Contains(word, amenity) ==
    CASE word = "pet" -> amenity \in {"pet friendly", "pets ok"}
      [] word = "parking" -> amenity = "parking"
      [] word = "laundry" -> amenity = "laundry"
      [] OTHER -> FALSE

\* An Apartment as ListingAgent._parse_kijiji / _parse_zumper build it from
\* the index-th listing of a file.
ParseListing(listing, index) ==
    LET has(word) == \E amenity \in listing.amenities : Contains(word, amenity)
    IN  [id |-> index, neighborhood |-> listing.neighborhood,
         price |-> listing.price, bedrooms |-> listing.bedrooms,
         sqft |-> listing.sqft, amenities |-> listing.amenities,
         pet_friendly |-> has("pet"),
         parking_included |-> has("parking"),
         laundry_type |-> IF has("laundry") THEN "in_unit" ELSE "none",
         place |-> get_coords(listing.neighborhood)]

\* The inventory of n listings that starts at catalog entry `seed`; when
\* `bad` is a position of it, that listing's square footage is text.
Inventory(n, seed, bad) ==
    [i \in 1..n |->
        LET listing == Catalog[((seed + i - 1) % Len(Catalog)) + 1]
        IN  ParseListing(IF i = bad THEN [listing EXCEPT !.sqft = StrSqft]
                         ELSE listing, i)]

RECURSIVE InsertByPrice(_, _)
\* sorted_ with apt put after every entry whose price is not higher.
InsertByPrice(sorted_, apt) ==
    IF sorted_ = <<>> THEN <<apt>>
    ELSE IF Head(sorted_).price <= apt.price
         THEN <<Head(sorted_)>> \o InsertByPrice(Tail(sorted_), apt)
    ELSE <<apt>> \o sorted_

RECURSIVE SortByPrice(_)
\* matching.sort(key=lambda x: x.price): ascending and stable.
SortByPrice(apts) ==
    IF apts = <<>> THEN <<>>
    ELSE InsertByPrice(SortByPrice(SubSeq(apts, 1, Len(apts) - 1)),
                       apts[Len(apts)])

\* ListingAgent.find_listings: the listings within the budget and within
\* one bedroom of the request, cheapest first, at most `limit` of them.
find_listings(all, budget_min, budget_max, bedrooms, limit) ==
    LET keep(apt) == ~(apt.price < budget_min \/ apt.price > budget_max)
                     /\ ~((IF apt.bedrooms >= bedrooms
                           THEN apt.bedrooms - bedrooms
                           ELSE bedrooms - apt.bedrooms) > 1)
    IN  Prefix(SortByPrice(SelectSeq(all, keep)), limit)

(***************************************************************************)
(* backend/agents/budget.py                                                *)
(***************************************************************************)

\* BudgetAgent.market_averages as __init__ builds it.
MarketAverages ==
    LET t == << <<"Centretown", 1800, 2400>>, <<"Byward Market", 2000, 2700>>,
                <<"The Glebe", 1900, 2500>>, <<"Westboro", 2000, 2600>>,
                <<"Hintonburg", 1750, 2300>>, <<"Sandy Hill", 1600, 2100>>,
                <<"Little Italy", 1700, 2200>>, <<"Vanier", 1450, 1850>>,
                <<"Alta Vista", 1550, 2000>>,
                <<"Old Ottawa South", 1800, 2400>>,
                <<"New Edinburgh", 1850, 2450>> >>
    IN  [key \in {<<t[k][1], b>> : k \in 1..Len(t), b \in 1..2} |->
            LET row == CHOOSE k \in 1..Len(t) : t[k][1] = key[1]
            IN  t[row][key[2] + 1]]

\* BudgetAgent.default_average, with .get(bedrooms, 1700).
default_average(bedrooms) ==
    IF bedrooms = 1 THEN 1700 ELSE IF bedrooms = 2 THEN 2200 ELSE 1700

\* dict.get(key, default) on a table held in a variable.
Get(table, key, default) == IF key \in DOMAIN table THEN table[key] ELSE default

\* round(n / d) for n >= 0, d > 0: to the nearest integer, halves to even.
RoundDiv(n, d) ==
    LET q == n \div d
        r == n % d
    IN  IF 2 * r > d \/ (2 * r = d /\ q % 2 = 1) THEN q + 1 ELSE q

\* The banded space-value score of a price per square foot, in cents.
SpaceValueScore(cents) ==
    IF cents <= 200 THEN 100
    ELSE IF cents <= 250 THEN 85
    ELSE IF cents <= 300 THEN 70
    ELSE IF cents <= 350 THEN 55
    ELSE 40

\* The summary's fixed wording, by band of price_difference_percent (the
\* formatted number is left out).
BudgetSummary(price_difference_percent) ==
    IF FloatLeq(price_difference_percent, -15) THEN "Excellent deal!"
    ELSE IF FloatLeq(price_difference_percent, -5) THEN "Good value"
    ELSE IF FloatLeq(price_difference_percent, 5) THEN "At market rate"
    ELSE IF FloatLeq(price_difference_percent, 15)
         THEN "Slightly above market"
    ELSE "Premium pricing"

\* BudgetAgent.analyze raises TypeError at `apartment.sqft < 700` when the
\* square footage is a non-empty str.
BudgetRaises(apartment) == apartment.sqft.tag = "str"

\* Fault variant of BudgetAnalyze: the space value score, when there is
\* one, is reported as the budget score.
BudgetAnalyzeBySpace(table, apartment) ==
    LET market_average == Get(table,
                              <<apartment.neighborhood, apartment.bedrooms>>,
                              default_average(apartment.bedrooms))
        price_difference == apartment.price - market_average
        price_difference_percent ==
            FloatTimes(FloatDiv(price_difference, market_average), 100)
        sqft == apartment.sqft.val
        has_sqft == sqft # 0 /\ sqft > 0
        estimated_utilities == IF sqft # 0 /\ sqft < 700 THEN 100 ELSE 150
        cents == IF has_sqft THEN RoundDiv(100 * apartment.price, sqft)
                 ELSE None
    IN  [apartment_id |-> apartment.id,
         monthly_rent |-> apartment.price,
         estimated_utilities |-> estimated_utilities,
         total_monthly |-> apartment.price + estimated_utilities,
         market_average |-> market_average,
         price_difference |-> price_difference,
         price_per_sqft |-> cents,
         is_good_deal |-> FloatLess(price_difference_percent, -5),
         budget_score |-> IF has_sqft THEN SpaceValueScore(cents)
                          ELSE calculate_budget_score(apartment.price,
                                                      market_average),
         space_value_score |-> IF has_sqft THEN SpaceValueScore(cents)
                               ELSE None,
         summary |-> BudgetSummary(price_difference_percent)]

\* BudgetAgent.analyze for an apartment it does not raise on.
BudgetAnalyze(table, apartment) ==
    LET market_average == Get(table,
                              <<apartment.neighborhood, apartment.bedrooms>>,
                              default_average(apartment.bedrooms))
        price_difference == apartment.price - market_average
        price_difference_percent ==
            FloatTimes(FloatDiv(price_difference, market_average), 100)
        sqft == apartment.sqft.val
        has_sqft == sqft # 0 /\ sqft > 0
        estimated_utilities == IF sqft # 0 /\ sqft < 700 THEN 100 ELSE 150
        cents == IF has_sqft THEN RoundDiv(100 * apartment.price, sqft)
                 ELSE None
    IN  [apartment_id |-> apartment.id,
         monthly_rent |-> apartment.price,
         estimated_utilities |-> estimated_utilities,
         total_monthly |-> apartment.price + estimated_utilities,
         market_average |-> market_average,
         price_difference |-> price_difference,
         price_per_sqft |-> cents,
         is_good_deal |-> FloatLess(price_difference_percent, -5),
         budget_score |-> calculate_budget_score(apartment.price,
                                                  market_average),
         space_value_score |-> IF has_sqft THEN SpaceValueScore(cents)
                               ELSE None,
         summary |-> BudgetSummary(price_difference_percent)]

(***************************************************************************)
(* backend/agents/neighborhood.py                                          *)
(***************************************************************************)

\* NeighborhoodAgent.crime_weights.
crime_weights == [Homicide |-> 10, Shootings |-> 8, Hate_Crime |-> 5,
                  Criminal_Offences |-> 3, Auto_Theft |-> 2, Bike_Theft |-> 1]

RECURSIVE SumOver(_, _)
SumOver(f, keys) ==
    IF keys = {} THEN 0
    ELSE LET k == CHOOSE k \in keys : TRUE
         IN  f[k] + SumOver(f, keys \ {k})

\* NeighborhoodAgent._calculate_safety_scores: the weighted crime totals,
\* min-max normalized, inverted and scaled into 40..95.
calculate_safety_scores(crime_counts) ==
    LET weighted == [n \in DOMAIN crime_counts |->
                        SumOver([c \in DOMAIN crime_counts[n] |->
                                    crime_counts[n][c] * crime_weights[c]],
                                DOMAIN crime_counts[n])]
        max_crime == CHOOSE x \in Range(weighted) :
                        \A y \in Range(weighted) : y <= x
        min_crime == CHOOSE x \in Range(weighted) :
                        \A y \in Range(weighted) : y >= x
    IN  IF DOMAIN crime_counts = {} THEN [n \in {} |-> 0]
        ELSE
        [n \in DOMAIN crime_counts |->
            IF max_crime = min_crime
            THEN TruncDiv(2 * 95 - 55, 2)
            ELSE TruncDiv(95 * (max_crime - min_crime)
                          - 55 * (weighted[n] - min_crime),
                          max_crime - min_crime)]

\* What _load_crime_data counted: nothing when there are no data files,
\* else the incidents of three neighborhoods.
load_crime_data(files_present) ==
    IF ~files_present THEN [n \in {} |-> [c \in {} |-> 0]]
    ELSE [n \in {"Centretown", "Vanier", "Kanata"} |->
            CASE n = "Centretown" -> [Criminal_Offences |-> 50, Bike_Theft |-> 20]
              [] n = "Vanier" -> [Shootings |-> 2, Auto_Theft |-> 10]
              [] OTHER -> [Bike_Theft |-> 5]]

\* NeighborhoodAgent.neighborhood_amenities as __init__ builds it: the
\* walkability, nightlife and quiet scores.
NeighborhoodAmenities ==
    LET t == << <<"Centretown", 92, 85, 40>>, <<"Byward Market", 95, 95, 25>>,
                <<"The Glebe", 85, 60, 70>>, <<"Westboro", 82, 55, 75>>,
                <<"Hintonburg", 80, 70, 55>>, <<"Sandy Hill", 78, 50, 60>>,
                <<"Little Italy", 83, 75, 50>>, <<"Vanier", 65, 40, 60>>,
                <<"Alta Vista", 55, 20, 90>>,
                <<"Old Ottawa South", 75, 35, 80>>,
                <<"New Edinburgh", 72, 30, 85>> >>
    IN  [n \in {t[k][1] : k \in 1..Len(t)} |->
            LET row == CHOOSE k \in 1..Len(t) : t[k][1] = n
            IN  [walkability_score |-> t[row][2],
                 nightlife_score |-> t[row][3],
                 quiet_score |-> t[row][4]]]

\* NeighborhoodAgent.default_amenities.
default_amenities == [walkability_score |-> 65, nightlife_score |-> 50,
                      quiet_score |-> 65]

\* NeighborhoodAgent._get_safety_rating.
get_safety_rating(score) ==
    IF score >= 85 THEN "excellent"
    ELSE IF score >= 70 THEN "good"
    ELSE IF score >= 55 THEN "moderate"
    ELSE "caution"

RECURSIVE SumSeq(_)
SumSeq(s) == IF s = <<>> THEN 0 ELSE Head(s) + SumSeq(Tail(s))

\* Fault variant of NeighborhoodAnalyze: the nightlife and the quiet score
\* are counted whatever the priorities.
NeighborhoodAnalyzeAllScores(safety, amenity_table, apartment, priorities) ==
    LET neighborhood == apartment.neighborhood
        safety_score == Get(safety, neighborhood, 70)
        amenities == Get(amenity_table, neighborhood, default_amenities)
        scores == <<safety_score, amenities.walkability_score,
                    amenities.nightlife_score, amenities.quiet_score>>
        summaries ==
               Opt(safety_score >= 85, "Very safe area")
            \o Opt(safety_score < 85 /\ safety_score >= 70, "Generally safe")
            \o Opt(safety_score < 55, "Higher crime area")
            \o Opt(amenities.walkability_score >= 85, "highly walkable")
            \o Opt(In("nightlife", priorities)
                   /\ amenities.nightlife_score >= 70, "great nightlife")
            \o Opt(In("quiet_area", priorities)
                   /\ amenities.quiet_score >= 75, "quiet residential area")
    IN  [apartment_id |-> apartment.id,
         neighborhood_name |-> neighborhood,
         safety_score |-> safety_score,
         safety_rating |-> get_safety_rating(safety_score),
         walkability_score |-> amenities.walkability_score,
         nightlife_score |-> amenities.nightlife_score,
         quiet_score |-> amenities.quiet_score,
         neighborhood_score |-> TruncDiv(SumSeq(scores), Len(scores)),
         summary |-> IF summaries = <<>> THEN <<"Typical neighborhood">>
                     ELSE summaries]

\* NeighborhoodAgent.analyze.  The summary is the list of clauses the code
\* joins with ", ".
NeighborhoodAnalyze(safety, amenity_table, apartment, priorities) ==
    LET neighborhood == apartment.neighborhood
        safety_score == Get(safety, neighborhood, 70)
        amenities == Get(amenity_table, neighborhood, default_amenities)
        scores == <<safety_score, amenities.walkability_score>>
                  \o Opt(In("nightlife", priorities), amenities.nightlife_score)
                  \o Opt(In("quiet_area", priorities), amenities.quiet_score)
        summaries ==
               Opt(safety_score >= 85, "Very safe area")
            \o Opt(safety_score < 85 /\ safety_score >= 70, "Generally safe")
            \o Opt(safety_score < 55, "Higher crime area")
            \o Opt(amenities.walkability_score >= 85, "highly walkable")
            \o Opt(In("nightlife", priorities)
                   /\ amenities.nightlife_score >= 70, "great nightlife")
            \o Opt(In("quiet_area", priorities)
                   /\ amenities.quiet_score >= 75, "quiet residential area")
    IN  [apartment_id |-> apartment.id,
         neighborhood_name |-> neighborhood,
         safety_score |-> safety_score,
         safety_rating |-> get_safety_rating(safety_score),
         walkability_score |-> amenities.walkability_score,
         nightlife_score |-> amenities.nightlife_score,
         quiet_score |-> amenities.quiet_score,
         neighborhood_score |-> TruncDiv(SumSeq(scores), Len(scores)),
         summary |-> IF summaries = <<>> THEN <<"Typical neighborhood">>
                     ELSE summaries]

(***************************************************************************)
(* backend/agents/commute.py                                               *)
(***************************************************************************)

\* A destination is what the coordinator passes: the pinned pair (a
\* tuple) or the work address (a str).
TupleDestination(point) == [is_tuple |-> TRUE, point |-> point, address |-> ""]
StrDestination(address) ==
    [is_tuple |-> FALSE, point |-> <<>>, address |-> address]

\* The default destination of the fallback, downtown Ottawa, and the pin
\* of the requests, in 1e-4 degrees.
Downtown == <<454215, -756972>>
Pin == <<453896, -757594>>

\* The haversine distance in metres from an apartment's place to a point.
HaversineM(place, point) ==
    IF point = Pin
    THEN CASE place = "centretown" -> 5588
           [] place = "vanier" -> 9347
           [] place = "kanata" -> 14782
           [] OTHER -> 6013
    ELSE CASE place = "centretown" -> 692
           [] place = "vanier" -> 3336
           [] place = "kanata" -> 20778
           [] OTHER -> 0

\* What the TravelTime client does with one call: it returns a result
\* ("value": the travel time in seconds of a route, or the coordinates of
\* an address), returns no result ("nothing"), raises ("raise") or never
\* answers ("hang").
Answer(kind, travel_time) == [kind |-> kind, travel_time |-> travel_time]
Value(travel_time) == Answer("value", travel_time)
Nothing == Answer("nothing", 0)
Raise == Answer("raise", 0)
Hang == Answer("hang", 0)

\* The client's answers to the calls made for an origin.
Api(geocoding, pt, dr, cy, wk) ==
    [geocoding |-> geocoding, public_transport |-> pt, driving |-> dr,
     cycling |-> cy, walking |-> wk]

\* The client's answers, by the place of the origin.
ServiceReplies ==
    [place \in {"centretown", "vanier", "kanata", "downtown"} |->
        CASE place = "centretown" ->
                Api(Value(0), Value(509), Value(330), Value(300), Value(779))
          [] place = "vanier" -> Api(Nothing, Nothing, Nothing, Nothing, Nothing)
          [] place = "kanata" ->
                Api(Value(0), Value(3301), Value(2100), Nothing, Raise)
          [] OTHER -> Api(Raise, Raise, Raise, Raise, Raise)]

\* TravelTimeService.geocode_address: whether coordinates come back; an
\* exception of the client is caught and None returned.
geocode_address(api) == api.geocoding.kind = "value"

\* TravelTimeService._resolve_location: a tuple is its own coordinates, an
\* address is geocoded.
resolve_location(api, destination) ==
    IF destination.is_tuple THEN TRUE ELSE geocode_address(api)

\* TravelTimeService.calculate_travel_time: the minutes of the route, None
\* when the client returns no route or raises.
calculate_travel_time(answer) ==
    IF answer.kind = "value" THEN answer.travel_time \div 60 ELSE None

\* TravelTimeService.calculate_all_travel_times_flexible: None when the
\* destination does not resolve, else an entry for each of the four modes.
calculate_all_travel_times_flexible(api, destination) ==
    IF ~resolve_location(api, destination)
    THEN [kind |-> "none", public_transport |-> None, driving |-> None,
          cycling |-> None, walking |-> None]
    ELSE [kind |-> "times",
          public_transport |-> calculate_travel_time(api.public_transport),
          driving |-> calculate_travel_time(api.driving),
          cycling |-> calculate_travel_time(api.cycling),
          walking |-> calculate_travel_time(api.walking)]

\* times.get(mode, default) over the four user-facing modes.
TimeOf(times, mode, default) ==
    IF mode \in DOMAIN times THEN times[mode] ELSE default

\* CommuteAgent._fallback_analysis: the estimate from the distance, or
\* score 50 "Location unknown" without coordinates.
fallback_analysis(apartment, destination, mode) ==
    IF apartment.place # "none"
       /\ (destination.is_tuple \/ destination.address # "")
    THEN LET m == HaversineM(apartment.place,
                             IF destination.is_tuple THEN destination.point
                             ELSE Downtown)
             times == [transit |-> (4 * m + 10000) \div 1000,
                       driving |-> (2 * m + 5000) \div 1000,
                       biking |-> (4 * m) \div 1000,
                       walking |-> (12 * m) \div 1000]
         IN  [apartment_id |-> apartment.id,
              transit_minutes |-> times.transit,
              driving_minutes |-> times.driving,
              biking_minutes |-> times.biking,
              walking_minutes |-> IF m < 5000 THEN times.walking ELSE None,
              best_mode |-> mode,
              best_time |-> TimeOf(times, mode, times.transit),
              commute_score |-> IF m <= 2000 THEN 95
                                ELSE IF m <= 5000 THEN 80
                                ELSE IF m <= 10000 THEN 65
                                ELSE 40,
              summary |-> IF m <= 2000 THEN "Excellent! Only km away"
                          ELSE IF m <= 5000 THEN "Great location"
                          ELSE IF m <= 10000 THEN "Reasonable distance"
                          ELSE "Far"]
    ELSE [apartment_id |-> apartment.id,
          transit_minutes |-> None, driving_minutes |-> None,
          biking_minutes |-> None, walking_minutes |-> None,
          best_mode |-> mode, best_time |-> 0, commute_score |-> 50,
          summary |-> "Location unknown"]

\* The step curve of CommuteAgent.analyze.
CommuteCurve(best_time) ==
    IF best_time <= 10 THEN 100
    ELSE IF best_time <= 20 THEN 90
    ELSE IF best_time <= 30 THEN 75
    ELSE IF best_time <= 45 THEN 60
    ELSE IF best_time <= 60 THEN 40
    ELSE 20

ModeOrder == <<"transit", "driving", "biking", "walking">>

\* min(valid_times, key=valid_times.get): the first mode, in the dict's
\* order, with the least time; the requested mode when no time is known.
BestMode(times, transport_mode) ==
    LET valid == {k \in 1..4 : times[ModeOrder[k]] # None}
        least(k) == \A j \in valid : times[ModeOrder[k]] <= times[ModeOrder[j]]
    IN  IF valid = {} THEN transport_mode
        ELSE ModeOrder[CHOOSE k \in valid :
                          least(k) /\ \A j \in valid : j < k => ~least(j)]

\* CommuteAgent.analyze with the travel-time service's answer for this
\* origin: "none" (no result), "raise" (an exception), or the minutes per
\* API mode (None where the service has no route).
CommuteAnalyze(api_up, reply, apartment, destination, transport_mode) ==
    IF apartment.place = "none" \/ ~api_up \/ reply.kind # "times"
    THEN fallback_analysis(apartment, destination, transport_mode)
    ELSE LET times == [transit |-> reply.public_transport,
                       driving |-> reply.driving,
                       biking |-> reply.cycling,
                       walking |-> reply.walking]
             best_mode == BestMode(times, transport_mode)
             best_time == IF \A k \in 1..4 : times[ModeOrder[k]] = None
                          THEN 30 ELSE times[best_mode]
         IN  [apartment_id |-> apartment.id,
              transit_minutes |-> times.transit,
              driving_minutes |-> times.driving,
              biking_minutes |-> times.biking,
              walking_minutes |-> times.walking,
              best_mode |-> best_mode,
              best_time |-> best_time,
              commute_score |-> CommuteCurve(best_time),
              summary |-> IF best_time <= 15 THEN "Excellent! Only"
                          ELSE IF best_time <= 30 THEN "Great"
                          ELSE IF best_time <= 45 THEN "Reasonable"
                          ELSE "Long commute"]

Reply(kind, pt, dr, cy, wk) ==
    [kind |-> kind, public_transport |-> pt, driving |-> dr,
     cycling |-> cy, walking |-> wk]

(***************************************************************************)
(* backend/agents/walkability.py                                           *)
(*                                                                         *)
(* A place of the agent's data is [name, distance]: distance is the        *)
(* haversine distance from the analysed coordinates, in decimetres (the    *)
(* code has it as a float of metres).                                      *)
(***************************************************************************)
WALKING_DISTANCE == 800

\* Fault variant of InsertByDistance: the place is put last (the list is
\* left in the order of the data).
InsertLast(sorted_, place) == Append(sorted_, place)

RECURSIVE InsertByDistance(_, _)
\* sorted_ with place put after every entry that is not farther.
InsertByDistance(sorted_, place) ==
    IF sorted_ = <<>> THEN <<place>>
    ELSE IF Head(sorted_).distance_m <= place.distance_m
         THEN <<Head(sorted_)>> \o InsertByDistance(Tail(sorted_), place)
    ELSE <<place>> \o sorted_

RECURSIVE find_nearby_places(_)
\* WalkabilityAgent._find_nearby_places: the places within WALKING_DISTANCE
\* with their distance truncated to metres, sorted by it (a stable sort).
find_nearby_places(places) ==
    IF places = <<>> THEN <<>>
    ELSE LET place == places[Len(places)]
             nearby == find_nearby_places(SubSeq(places, 1, Len(places) - 1))
         IN  IF place.distance <= WALKING_DISTANCE * 10
             THEN InsertByDistance(nearby,
                      [name |-> place.name,
                       distance_m |-> place.distance \div 10])
             ELSE nearby

\* The grocery points of WalkabilityAgent._calculate_score.
GroceryScore(groceries_nearby) ==
    IF groceries_nearby # <<>>
    THEN LET closest_grocery == groceries_nearby[1].distance_m
         IN  (IF closest_grocery <= 300 THEN 40
              ELSE IF closest_grocery <= 500 THEN 35
              ELSE IF closest_grocery <= 800 THEN 25
              ELSE 15)
             + Min(Len(groceries_nearby) - 1, 5) * 1
    ELSE 0

\* The park points of WalkabilityAgent._calculate_score.
ParkScore(parks_nearby) ==
    IF parks_nearby # <<>>
    THEN LET closest_park == parks_nearby[1].distance_m
         IN  (IF closest_park <= 300 THEN 35
              ELSE IF closest_park <= 500 THEN 28
              ELSE IF closest_park <= 800 THEN 20
              ELSE 10)
             + Min(Len(parks_nearby) - 1, 5) * 1
    ELSE 0

\* Fault variant of SchoolScore: no points without a school nearby.
SchoolScoreNoFloor(schools_nearby) ==
    IF schools_nearby # <<>>
    THEN LET closest_school == schools_nearby[1].distance_m
         IN  IF closest_school <= 500 THEN 25
             ELSE IF closest_school <= 800 THEN 18
             ELSE 10
    ELSE 0

\* The school points of WalkabilityAgent._calculate_score.
SchoolScore(schools_nearby) ==
    IF schools_nearby # <<>>
    THEN LET closest_school == schools_nearby[1].distance_m
         IN  IF closest_school <= 500 THEN 25
             ELSE IF closest_school <= 800 THEN 18
             ELSE 10
    ELSE 5

\* WalkabilityAgent._calculate_score
calculate_score(parks_nearby, schools_nearby, groceries_nearby) ==
    LET total == GroceryScore(groceries_nearby) + ParkScore(parks_nearby)
                 + SchoolScore(schools_nearby)
    IN  Min(100, Max(0, total))

\* WalkabilityAgent._generate_summary: the parts joined by ", " (the
\* numbers inside the parts left out).
generate_summary(score, parks_nearby, schools_nearby, groceries_nearby) ==
    <<IF score >= 85 THEN "Excellent walkability"
      ELSE IF score >= 70 THEN "Very walkable"
      ELSE IF score >= 55 THEN "Somewhat walkable"
      ELSE IF score >= 40 THEN "Car-dependent"
      ELSE "Very car-dependent">>
    \o <<IF groceries_nearby # <<>>
         THEN (IF groceries_nearby[1].distance_m <= 400 THEN "grocery m away"
               ELSE "nearest grocery m")
         ELSE "no grocery within walking distance">>
    \o Opt(parks_nearby # <<>>, "parks nearby")

\* closest_<category>_name and _distance: the first nearby place, or None.
Closest(nearby) ==
    IF nearby # <<>> THEN nearby[1]
    ELSE [name |-> NoneStr, distance_m |-> None]

\* WalkabilityAgent.analyze
WalkabilityAnalyze(agent, apartment) ==
    IF apartment.place = "none"
    THEN [apartment_id |-> apartment.id, walkability_score |-> 50,
          parks_nearby |-> 0, schools_nearby |-> 0, groceries_nearby |-> 0,
          closest_park |-> Closest(<<>>), closest_school |-> Closest(<<>>),
          closest_grocery |-> Closest(<<>>),
          summary |-> <<"Location data unavailable">>]
    ELSE LET nearby_parks == find_nearby_places(agent.parks)
             nearby_schools == find_nearby_places(agent.schools)
             nearby_groceries == find_nearby_places(agent.groceries)
             score == calculate_score(nearby_parks, nearby_schools,
                                      nearby_groceries)
         IN  [apartment_id |-> apartment.id, walkability_score |-> score,
              parks_nearby |-> Len(nearby_parks),
              schools_nearby |-> Len(nearby_schools),
              groceries_nearby |-> Len(nearby_groceries),
              closest_park |-> Closest(nearby_parks),
              closest_school |-> Closest(nearby_schools),
              closest_grocery |-> Closest(nearby_groceries),
              summary |-> generate_summary(score, nearby_parks,
                              nearby_schools, nearby_groceries)]

(***************************************************************************)
(* backend/SAM/src/models.py: SearchRequest                                *)
(***************************************************************************)
has_pinned_location(req) == req.pinned_lat # None /\ req.pinned_lng # None

\* Fault variant of Destination: the work address, when there is one, is
\* passed instead of the pinned pair.
DestinationAddressFirst(req) ==
    IF req.work_address # ""
    THEN StrDestination(req.work_address)
    ELSE TupleDestination(<<req.pinned_lat, req.pinned_lng>>)

\* get_destination_coords() or work_address
Destination(req) ==
    IF has_pinned_location(req)
    THEN TupleDestination(<<req.pinned_lat, req.pinned_lng>>)
    ELSE StrDestination(req.work_address)

SearchRequest(lo, hi, work, beds, prios, mode, lat, lng) ==
    [budget_min |-> lo, budget_max |-> hi, work_address |-> work,
     bedrooms |-> beds, priorities |-> prios, transport_mode |-> mode,
     pinned_lat |-> lat, pinned_lng |-> lng]

\* The requests the searches are made with.
Requests == {
    SearchRequest(1500, 2500, "99 Bank Street", 1,
                  <<"short_commute", "low_price">>, "transit", None, None),
    SearchRequest(1500, 2500, "", 1,
                  <<"short_commute", "safe_area", "parking">>, "transit",
                  None, None),
    SearchRequest(1500, 2500, "", 2,
                  <<"pet_friendly", "parking", "laundry", "gym">>, "driving",
                  Pin[1], Pin[2]),
    SearchRequest(1700, 2500, "99 Bank Street", 1, <<>>, "biking",
                  Pin[1], Pin[2]),
    SearchRequest(1500, 2100, "", 3,
                  <<"nightlife", "quiet_area", "good_transit">>, "walking",
                  Pin[1], None) }

(***************************************************************************)
(* backend/agents/coordinator.py: CoordinatorAgent                         *)
(***************************************************************************)
VARIABLES
    inventory,              \* listing_agent.apartments
    market_averages,        \* budget_agent.market_averages
    safety_scores,          \* neighborhood_agent.safety_scores
    neighborhood_amenities, \* neighborhood_agent.neighborhood_amenities
    api_available,          \* commute_agent.api_available
    travel_service,         \* the TravelTime client's answers
    request,                \* the SearchRequest of the searches
    run,                    \* the number of searches started
    pc,                     \* where the current search is
    has_work_location,      \* search(): has_work_location
    apartments,             \* search(): apartments
    i,                      \* search(): the candidate being analysed
    tasks,                  \* the awaitables handed to asyncio.gather
    pending,                \* the positions of those not yet completed
    slots,                  \* the result list of asyncio.gather
    recommendations,        \* search(): recommendations
    calls,                  \* analyze() calls of the current search, by axis
    responses,              \* what each finished search returned or raised
    endpoint,               \* main.py: the endpoint the request came in by
    walkability_agent,      \* WalkabilityAgent: parks, schools, groceries
    walk_apartment,         \* the apartment given to WalkabilityAgent.analyze
    walkability,            \* what WalkabilityAgent.analyze returned
    explained               \* a call of generate_match_reasons and
                            \* generate_concerns: arguments and results

vars == <<inventory, market_averages, safety_scores, neighborhood_amenities,
          api_available, travel_service, request, run, pc, has_work_location,
          apartments, i, tasks, pending, slots, recommendations, calls,
          responses, endpoint, walkability_agent, walk_apartment,
          walkability, explained>>

\* The state no step of a search writes.
agents == <<inventory, market_averages, safety_scores,
            neighborhood_amenities, api_available, travel_service, request,
            endpoint, walkability_agent, walk_apartment, walkability,
            explained>>

\* A gather slot no task has written.
Empty == [apartment_id |-> None]

\* What the analysis awaited as `axis` returns for an apartment.
Analyze(axis, apartment) ==
    CASE axis = "commute" ->
            CommuteAnalyze(api_available,
                calculate_all_travel_times_flexible(
                    travel_service[apartment.place], Destination(request)),
                apartment, Destination(request), request.transport_mode)
      [] axis = "neighborhood" ->
            NeighborhoodAnalyze(safety_scores, neighborhood_amenities,
                                apartment, request.priorities)
      [] axis = "budget" -> BudgetAnalyze(market_averages, apartment)

\* Whether that analysis raises instead.
Raises(axis, apartment) == axis = "budget" /\ BudgetRaises(apartment)

\* Whether that analysis never completes: CommuteAgent.analyze calls the
\* TravelTime client without a timeout (geocoding for an address, then the
\* four routes when the destination resolved) and waits for each answer.
Hangs(axis, apartment) ==
    /\ axis = "commute"
    /\ apartment.place # "none"
    /\ api_available
    /\ LET api == travel_service[apartment.place]
           destination == Destination(request)
       IN  \/ ~destination.is_tuple /\ api.geocoding.kind = "hang"
           \/ /\ resolve_location(api, destination)
              /\ \E mode \in {"public_transport", "driving", "cycling",
                               "walking"} : api[mode].kind = "hang"

\* The awaitables of one candidate, in the order they are passed to
\* asyncio.gather (lines 114-142).
TasksFor(has_commute) ==
    IF has_commute THEN <<"commute", "neighborhood", "budget">>
    ELSE <<"neighborhood", "budget">>

\* Fault variant of Bind: a result is put in the first slot still free,
\* that is, the results are collected in completion order.
BindInCompletionOrder(results, position, result) ==
    LET free == {p \in 1..Len(results) : results[p] = Empty}
        first == CHOOSE p \in free : \A q \in free : p <= q
    IN  [results EXCEPT ![first] = result]

\* asyncio.gather puts each result at the position of its awaitable.
Bind(results, position, result) == [results EXCEPT ![position] = result]

\* The empty commute result of a search without work location
\* (lines 144-154).
EmptyCommute(apartment) ==
    [apartment_id |-> apartment.id,
     transit_minutes |-> None, driving_minutes |-> None,
     biking_minutes |-> None, walking_minutes |-> None,
     best_mode |-> NoneStr, best_time |-> None, commute_score |-> None,
     summary |-> NoneStr]

\* Lines 131-190 for one candidate: the (recommendation, scores) pair made
\* of the gathered results.
Recommend(apartment, results, req, has_commute) ==
    LET commute == IF has_commute THEN results[1] ELSE EmptyCommute(apartment)
        neighborhood == IF has_commute THEN results[2] ELSE results[1]
        budget == IF has_commute THEN results[3] ELSE results[2]
        amenity_score == calculate_amenity_score(apartment, req.priorities)
        scores == [commute |-> commute.commute_score,
                   neighborhood |-> neighborhood.neighborhood_score,
                   budget |-> budget.budget_score,
                   amenities |-> amenity_score]
    IN  [rec |-> [rank |-> 0,
                  apartment |-> apartment,
                  commute |-> commute,
                  neighborhood |-> neighborhood,
                  budget |-> budget,
                  overall_score |->
                      calculate_overall_score(scores.commute,
                          scores.neighborhood, scores.budget,
                          scores.amenities, req.priorities, has_commute),
                  headline |-> "",
                  match_reasons |->
                      generate_match_reasons(apartment, scores, req.priorities),
                  concerns |->
                      generate_concerns(apartment, scores, req.priorities)],
         scores |-> scores]

RECURSIVE InsertByScoreUnstable(_, _)
\* Fault variant of InsertByScore: pair is put before the entries of equal
\* score (a sort that is not stable).
InsertByScoreUnstable(sorted_, pair) ==
    IF sorted_ = <<>> THEN <<pair>>
    ELSE IF Head(sorted_).rec.overall_score > pair.rec.overall_score
         THEN <<Head(sorted_)>> \o InsertByScoreUnstable(Tail(sorted_), pair)
    ELSE <<pair>> \o sorted_

RECURSIVE InsertByScore(_, _)
\* sorted_ with pair put after every entry whose score is not lower.
InsertByScore(sorted_, pair) ==
    IF sorted_ = <<>> THEN <<pair>>
    ELSE IF Head(sorted_).rec.overall_score >= pair.rec.overall_score
         THEN <<Head(sorted_)>> \o InsertByScore(Tail(sorted_), pair)
    ELSE <<pair>> \o sorted_

RECURSIVE SortByScore(_)
\* recommendations.sort(key=overall_score, reverse=True): descending, and
\* stable also when reversed.
SortByScore(pairs) ==
    IF pairs = <<>> THEN <<>>
    ELSE InsertByScore(SortByScore(SubSeq(pairs, 1, Len(pairs) - 1)),
                       pairs[Len(pairs)])

\* Fault variant of RankOf: enumerate(recommendations) without the start.
RankFromZero(k) == k - 1

\* enumerate(recommendations, 1): the rank of the entry at index k.
RankOf(k) == k

\* Lines 196-203: the list sorted in place, each recommendation given its
\* rank and its headline.
Ranked(pairs, req, has_commute) ==
    LET sorted_ == SortByScore(pairs)
    IN  [k \in 1..Len(sorted_) |->
            [sorted_[k] EXCEPT
                !.rec.rank = RankOf(k),
                !.rec.headline =
                    generate_headline(RankOf(k), sorted_[k].scores,
                                      req.priorities, has_commute)]]

\* Fault variant of TotalFound: the length of the truncated list.
TotalReturned(found, returned) == Len(returned)

\* total_found=len(apartments) (line 217)
TotalFound(found, returned) == Len(found)

\* Lines 199-220: the response made of the ranked list.
SearchResponse(found, ranked) ==
    LET final_recommendations ==
            Prefix([k \in 1..Len(ranked) |-> ranked[k].rec], TopK)
    IN  [status |-> "ok",
         total_found |-> TotalFound(found, final_recommendations),
         recommendations |-> final_recommendations]

\* Fault variant of NoApartments: an empty listing reported as an error.
NoApartmentsError ==
    [status |-> "raised", total_found |-> None, recommendations |-> <<>>]

\* Lines 95-102: the response when no apartment was found.
NoApartments ==
    [status |-> "ok", total_found |-> 0, recommendations |-> <<>>]

\* An exception that left search().
Raised == [status |-> "raised", total_found |-> None, recommendations |-> <<>>]

\* Fault variant of NewList: the list of the previous search is kept.
LeftoverList == recommendations

\* recommendations = [] (line 108)
NewList == <<>>

NoCalls == [commute |-> 0, neighborhood |-> 0, budget |-> 0]

\* The calls made when the awaitables of one candidate are created.
CountCalls(counts, has_commute) ==
    [axis \in DOMAIN counts |->
        IF axis = "commute" /\ ~has_commute THEN counts[axis]
        ELSE counts[axis] + 1]

\* WalkabilityAgent.__init__ when the data files are missing: each loader
\* returns [].
NoPlaces == [parks |-> <<>>, schools |-> <<>>, groceries |-> <<>>]

\* An Apartment built with the defaults of the dataclass: lat = lng = None.
BareApartment ==
    [id |-> 0, neighborhood |-> "", price |-> 0, bedrooms |-> 0,
     sqft |-> IntSqft(0), amenities |-> {}, pet_friendly |-> FALSE,
     parking_included |-> FALSE, laundry_type |-> "none", place |-> "none"]

\* A search arrives by POST /api/v1/search and no walkability analysis is
\* asked for.
SearchOnly ==
    /\ endpoint = "search"
    /\ walkability_agent = NoPlaces
    /\ walk_apartment = BareApartment
    /\ walkability = Empty
    /\ explained = Empty

\* What the agents find when they are constructed: the crime data files
\* (NeighborhoodAgent.__init__) and the TravelTime credentials
\* (CommuteAgent.__init__).
Worlds == {[crime_files |-> TRUE, credentials |-> TRUE],
           [crime_files |-> FALSE, credentials |-> FALSE]}

\* The state after CoordinatorAgent() is constructed and before a search.
Init ==
    /\ \E n \in 0..MaxInventory, seed \in 0..(Len(Catalog) - 1), bad \in 0..2 :
            inventory = Inventory(n, seed, bad)
    /\ market_averages = MarketAverages
    /\ \E world \in Worlds :
            /\ safety_scores =
                   calculate_safety_scores(load_crime_data(world.crime_files))
            /\ api_available = world.credentials
    /\ neighborhood_amenities = NeighborhoodAmenities
    /\ travel_service = ServiceReplies
    /\ request \in Requests
    /\ run = 0
    /\ pc = "idle"
    /\ has_work_location = FALSE
    /\ apartments = <<>>
    /\ i = 0
    /\ tasks = <<>>
    /\ pending = {}
    /\ slots = <<>>
    /\ recommendations = <<>>
    /\ calls = NoCalls
    /\ responses = <<>>
    /\ SearchOnly

\* Lines 110-129 for candidate k: its awaitables are created.
StartCandidate(k) ==
    /\ i' = k
    /\ tasks' = TasksFor(has_work_location)
    /\ pending' = 1..Len(tasks')
    /\ slots' = [p \in 1..Len(tasks') |-> Empty]
    /\ calls' = CountCalls(calls, has_work_location)

\* main.py, search_apartments: the checks made before the request is
\* handed to the coordinator (lines 209-216).
Valid(req) ==
    /\ ~(req.budget_min < 0 \/ req.budget_max < 0)
    /\ ~(req.budget_min > req.budget_max)
    /\ ~(req.bedrooms < 0 \/ req.bedrooms > 5)

\* Whether the endpoint hands the request to CoordinatorAgent.search:
\* search_apartments after its checks, chat without any (lines 159-175).
Admits(entry, req) == entry = "chat" \/ Valid(req)

\* search() is called (lines 56-93) and awaits the listings.
Search ==
    /\ pc \in {"idle", "done", "raised"}
    /\ Admits(endpoint, request)
    /\ run < MaxRuns
    /\ run' = run + 1
    /\ has_work_location' =
           (request.work_address # "" \/ has_pinned_location(request))
    /\ pc' = "fetching"
    /\ calls' = NoCalls
    /\ UNCHANGED <<agents, apartments, i, tasks, pending, slots,
                   recommendations, responses>>

\* find_listings returned no apartment: the empty response (lines 95-102).
NothingFound ==
    /\ pc = "fetching"
    /\ LET found == find_listings(inventory, request.budget_min,
                                  request.budget_max, request.bedrooms,
                                  ListingLimit)
       IN  /\ found = <<>>
           /\ apartments' = found
    /\ responses' = Append(responses, NoApartments)
    /\ pc' = "done"
    /\ UNCHANGED <<agents, run, has_work_location, i, tasks, pending, slots,
                   recommendations, calls>>

\* find_listings returned apartments: the analysis of the first begins
\* (lines 104-129).
Found ==
    /\ pc = "fetching"
    /\ LET found == find_listings(inventory, request.budget_min,
                                  request.budget_max, request.bedrooms,
                                  ListingLimit)
       IN  /\ found # <<>>
           /\ apartments' = found
    /\ recommendations' = NewList
    /\ StartCandidate(1)
    /\ pc' = "gather"
    /\ UNCHANGED <<agents, run, has_work_location, responses>>

\* Fault variant of TaskReturns: the budget analysis stores the market
\* average it used in the agent's table.
TaskReturnsCaching(position) ==
    /\ pc = "gather"
    /\ position \in pending
    /\ ~Raises(tasks[position], apartments[i])
    /\ ~Hangs(tasks[position], apartments[i])
    /\ slots' = Bind(slots, position, Analyze(tasks[position], apartments[i]))
    /\ pending' = pending \ {position}
    /\ market_averages' =
           IF tasks[position] = "budget"
           THEN [key \in DOMAIN market_averages
                         \cup {<<apartments[i].neighborhood,
                                 apartments[i].bedrooms>>} |->
                    Get(market_averages, key,
                        default_average(apartments[i].bedrooms))]
           ELSE market_averages
    /\ UNCHANGED <<inventory, safety_scores, neighborhood_amenities,
                   api_available, travel_service, request, endpoint,
                   walkability_agent, walk_apartment, walkability, explained,
                   run, pc, has_work_location, apartments, i, tasks,
                   recommendations, calls, responses>>

\* One awaited analysis of the current candidate returns.
TaskReturns(position) ==
    /\ pc = "gather"
    /\ position \in pending
    /\ ~Raises(tasks[position], apartments[i])
    /\ ~Hangs(tasks[position], apartments[i])
    /\ slots' = Bind(slots, position, Analyze(tasks[position], apartments[i]))
    /\ pending' = pending \ {position}
    /\ UNCHANGED <<agents, run, pc, has_work_location, apartments, i, tasks,
                   recommendations, calls, responses>>

\* One awaited analysis raises: asyncio.gather raises it in search(), which
\* catches nothing.
TaskRaises(position) ==
    /\ pc = "gather"
    /\ position \in pending
    /\ Raises(tasks[position], apartments[i])
    /\ pending' = pending \ {position}
    /\ responses' = Append(responses, Raised)
    /\ pc' = "raised"
    /\ UNCHANGED <<agents, run, has_work_location, apartments, i, tasks,
                   slots, recommendations, calls>>

\* Fault variant of NextCandidate: the list is sorted and ranked each time
\* a recommendation is appended.
NextCandidateSorted ==
    /\ pc = "gather"
    /\ pending = {}
    /\ i < Len(apartments)
    /\ recommendations' =
           Ranked(Append(recommendations,
                         Recommend(apartments[i], slots, request,
                                   has_work_location)),
                  request, has_work_location)
    /\ StartCandidate(i + 1)
    /\ UNCHANGED <<agents, run, pc, has_work_location, apartments, responses>>

\* gather returned for a candidate that is not the last: its recommendation
\* is appended and the next candidate's analysis begins (lines 131-190,
\* 110-129).
NextCandidate ==
    /\ pc = "gather"
    /\ pending = {}
    /\ i < Len(apartments)
    /\ recommendations' =
           Append(recommendations,
                  Recommend(apartments[i], slots, request, has_work_location))
    /\ StartCandidate(i + 1)
    /\ UNCHANGED <<agents, run, pc, has_work_location, apartments, responses>>

\* gather returned for the last candidate: its recommendation is appended,
\* the list is sorted and ranked and the response is returned
\* (lines 131-220).
RankAndReturn ==
    /\ pc = "gather"
    /\ pending = {}
    /\ i = Len(apartments)
    /\ recommendations' =
           Ranked(Append(recommendations,
                         Recommend(apartments[i], slots, request,
                                   has_work_location)),
                  request, has_work_location)
    /\ responses' =
           Append(responses, SearchResponse(apartments, recommendations'))
    /\ pc' = "done"
    /\ UNCHANGED <<agents, run, has_work_location, apartments, i, tasks,
                   pending, slots, calls>>

Next ==
    \/ Search
    \/ NothingFound
    \/ Found
    \/ \E position \in 1..3 : TaskReturns(position)
    \/ \E position \in 1..3 : TaskRaises(position)
    \/ NextCandidate
    \/ RankAndReturn

Spec == Init /\ [][Next]_vars

(***************************************************************************)
(* The searches over every priority list: the priorities of the request   *)
(* range over the lists of at most MaxPriorities tags, one tag for each   *)
(* branch of the boost loop, with and without a work address.             *)
(***************************************************************************)
MaxPriorities == 3

PriorityTags ==
    {"short_commute", "safe_area", "low_price", "parking", "good_transit"}

RECURSIVE PriorityLists(_)
PriorityLists(n) ==
    IF n = 0 THEN {<<>>}
    ELSE LET shorter == PriorityLists(n - 1)
         IN  shorter \cup {Append(p, t) : p \in shorter, t \in PriorityTags}

InitPriorities ==
    /\ \E n \in 0..2, bad \in 0..1 : inventory = Inventory(n, 0, bad)
    /\ market_averages = MarketAverages
    /\ safety_scores = calculate_safety_scores(load_crime_data(TRUE))
    /\ api_available = TRUE
    /\ neighborhood_amenities = NeighborhoodAmenities
    /\ travel_service = ServiceReplies
    /\ \E work \in {"", "99 Bank Street"},
          priorities \in PriorityLists(MaxPriorities) :
            request = SearchRequest(1500, 2500, work, 1, priorities,
                                    "transit", None, None)
    /\ run = 0
    /\ pc = "idle"
    /\ has_work_location = FALSE
    /\ apartments = <<>>
    /\ i = 0
    /\ tasks = <<>>
    /\ pending = {}
    /\ slots = <<>>
    /\ recommendations = <<>>
    /\ calls = NoCalls
    /\ responses = <<>>
    /\ SearchOnly

SpecPriorities == InitPriorities /\ [][Next]_vars

(***************************************************************************)
(* Properties                                                              *)
(***************************************************************************)

\* The searches that returned a response.
OkResponses == {r \in 1..Len(responses) : responses[r].status = "ok"}

\* The position of an apartment in the list find_listings returned.
FetchIndex(id) == CHOOSE k \in 1..Len(apartments) : apartments[k].id = id

\* The commute scores a CommuteAnalysis is tried with.
CommuteScores == {None, 0, 50, 100}

\* C1: in every response of search() the recommendations are non-increasing
\* in overall_score, and two recommendations of equal overall_score are in
\* the order in which find_listings returned their apartments.
C1_StableDescending ==
    \A r \in OkResponses :
        LET recs == responses[r].recommendations
        IN  \A a, b \in 1..Len(recs) :
                a < b =>
                    /\ recs[a].overall_score >= recs[b].overall_score
                    /\ recs[a].overall_score = recs[b].overall_score
                       => FetchIndex(recs[a].apartment.id)
                          < FetchIndex(recs[b].apartment.id)

\* A response in which two recommendations tie, and in which the sort moved
\* an apartment fetched later in front of one fetched earlier.
C1_Witness ==
    \E r \in OkResponses :
        LET recs == responses[r].recommendations
        IN  /\ \E a, b \in 1..Len(recs) :
                    /\ a < b
                    /\ recs[a].overall_score = recs[b].overall_score
            /\ \E a, b \in 1..Len(recs) :
                    /\ a < b
                    /\ recs[a].overall_score > recs[b].overall_score
                    /\ FetchIndex(recs[a].apartment.id)
                       > FetchIndex(recs[b].apartment.id)

\* C2: in every response the ranks of the recommendations are 1, 2, ..., N
\* in list order, N = min(10, number of apartments find_listings returned);
\* no recommendation keeps the placeholder rank 0.
C2_DenseRanks ==
    \A r \in OkResponses :
        LET recs == responses[r].recommendations
        IN  /\ Len(recs) = Min(10, Len(apartments))
            /\ \A k \in 1..Len(recs) : recs[k].rank = k /\ recs[k].rank # 0

\* A response truncated to ten recommendations out of more candidates.
C2_Witness ==
    \E r \in OkResponses :
        /\ Len(responses[r].recommendations) = 10
        /\ Len(apartments) > 10

\* C3: total_found is the number of apartments fetched, before truncation;
\* the ranked list holds every fetched apartment once; the returned list is
\* its first min(10, total_found) entries; no omitted candidate has a
\* strictly higher overall_score than a returned one.
C3_TotalAndTopTen ==
    /\ \A r \in OkResponses : responses[r].total_found = Len(apartments)
    /\ (pc = "done" /\ apartments # <<>>) =>
        LET last == responses[Len(responses)]
            recs == last.recommendations
            n == Min(10, last.total_found)
        IN  /\ Len(recommendations) = Len(apartments)
            /\ \A k \in 1..Len(apartments) :
                   \E j \in 1..Len(recommendations) :
                       recommendations[j].rec.apartment = apartments[k]
            /\ Len(recs) = n
            /\ \A k \in 1..n : recs[k] = recommendations[k].rec
            /\ \A k \in (n + 1)..Len(recommendations), j \in 1..n :
                   recommendations[k].rec.overall_score
                       <= recs[j].overall_score

\* A search that found more than ten apartments and left out one whose
\* score is strictly below the last returned one.
C3_Witness ==
    /\ pc = "done"
    /\ Len(apartments) > 10
    /\ recommendations[Len(recommendations)].rec.overall_score
           < responses[Len(responses)].recommendations[10].overall_score

\* C4: every returned recommendation has its overall_score and each of its
\* axis scores (commute, neighborhood, budget, amenity) in 0..100, also
\* when the search has no destination.
C4_ScoresInRange ==
    \A r \in OkResponses :
        LET recs == responses[r].recommendations
        IN  \A k \in 1..Len(recs) :
                /\ recs[k].overall_score \in 0..100
                /\ recs[k].commute.commute_score \in 0..100
                /\ recs[k].neighborhood.neighborhood_score \in 0..100
                /\ recs[k].budget.budget_score \in 0..100
                /\ calculate_amenity_score(recs[k].apartment,
                                           request.priorities) \in 0..100

NoDestination == request.work_address = "" /\ ~has_pinned_location(request)

\* C6: when the request has no work address and no pinned coordinates,
\* has_commute is False, the commute weight is 0 also with "short_commute"
\* among the priorities, and the overall score of every candidate is the
\* same whatever commute score is passed.
C6_NoDestinationNoCommute ==
    (pc # "idle" /\ NoDestination) =>
        /\ ~has_work_location
        /\ \A c \in CommuteScores :
               Weights(c, request.priorities,
                       has_work_location).num.commute = 0
        /\ \A k \in 1..Len(recommendations), c \in CommuteScores :
               LET pair == recommendations[k]
               IN  pair.rec.overall_score =
                       calculate_overall_score(c, pair.scores.neighborhood,
                           pair.scores.budget, pair.scores.amenities,
                           request.priorities, has_work_location)

\* A search without destination and with "short_commute" as its first
\* priority has scored a candidate.
C6_Witness ==
    /\ NoDestination
    /\ request.priorities # <<>>
    /\ Head(request.priorities) = "short_commute"
    /\ recommendations # <<>>

\* C7: the searches made with the same request, the same listings and the
\* same answers of the agents return the same response: the same apartments
\* with the same ranks, scores, headlines, match reasons and concerns.
C7_SameInputsSameResponse ==
    \A a, b \in 1..Len(responses) : responses[a] = responses[b]

\* Two searches have returned, each ranking at least three candidates with
\* a commute analysis.
C7_Witness ==
    /\ Len(responses) = 2
    /\ has_work_location
    /\ \A r \in 1..2 :
           /\ responses[r].status = "ok"
           /\ Len(responses[r].recommendations) >= 3

\* The results asyncio.gather returns for an apartment when its awaitables
\* complete in the order they were passed.
InOrder(apartment) ==
    LET axes == TasksFor(has_work_location)
    IN  [p \in 1..Len(axes) |-> Analyze(axes[p], apartment)]

\* The response of the search whose awaitables all complete in that order.
InOrderResponse ==
    SearchResponse(apartments,
        Ranked([k \in 1..Len(apartments) |->
                    Recommend(apartments[k], InOrder(apartments[k]),
                              request, has_work_location)],
               request, has_work_location))

\* C8: in whatever order the analyses of a candidate complete, each result
\* is bound to its own axis of its own candidate, and the response is the
\* one of the search whose analyses complete in the order they were
\* started: completion order changes no score and not the final order.
C8_CompletionOrderIrrelevant ==
    /\ pc = "gather" =>
           \A p \in (1..Len(tasks)) \ pending :
               /\ slots[p] = Analyze(tasks[p], apartments[i])
               /\ slots[p].apartment_id = apartments[i].id
    /\ (pc = "done" /\ apartments # <<>>) =>
           responses[Len(responses)] = InOrderResponse

\* The budget and neighborhood analyses of a later candidate completed
\* while its commute analysis is still pending.
C8_Witness ==
    /\ pc = "gather"
    /\ Len(tasks) = 3
    /\ pending = {1}
    /\ i >= 2

\* C9: when find_listings returns no apartment, search() returns a normal
\* response with total_found = 0 and no recommendation, and no commute,
\* neighborhood or budget analysis was invoked.
C9_EmptyListing ==
    (pc = "done" /\ apartments = <<>>) =>
        /\ responses[Len(responses)] =
               [status |-> "ok", total_found |-> 0, recommendations |-> <<>>]
        /\ \A axis \in DOMAIN calls : calls[axis] = 0

\* A search over a non-empty inventory none of whose listings match.
C9_Witness ==
    /\ pc = "done"
    /\ apartments = <<>>
    /\ inventory # <<>>

\* C10: when an analysis of one candidate raises, search() still returns a
\* response, and every candidate whose analyses do not raise has been
\* analysed and ranked.
C10_FailureIsolated ==
    pc \in {"done", "raised"} =>
        /\ responses[Len(responses)].status = "ok"
        /\ \A k \in 1..Len(apartments) :
               (\A p \in 1..Len(tasks) : ~Raises(tasks[p], apartments[k]))
               => \E j \in 1..Len(recommendations) :
                      recommendations[j].rec.apartment = apartments[k]

\* C11: every recommendation of every response is fully populated: none of
\* the score, mode, time and summary fields of the recommendation and of
\* its commute, neighborhood and budget analyses is None, also without a
\* destination and with analyses that fell back.
C11_FullyPopulated ==
    \A r \in OkResponses :
        LET recs == responses[r].recommendations
        IN  \A k \in 1..Len(recs) :
                /\ recs[k].overall_score # None
                /\ recs[k].headline # NoneStr
                /\ recs[k].commute.commute_score # None
                /\ recs[k].commute.best_mode # NoneStr
                /\ recs[k].commute.best_time # None
                /\ recs[k].commute.summary # NoneStr
                /\ recs[k].neighborhood.neighborhood_score # None
                /\ recs[k].neighborhood.safety_score # None
                /\ recs[k].neighborhood.summary # <<>>
                /\ recs[k].budget.budget_score # None
                /\ recs[k].budget.summary # NoneStr

(***************************************************************************)
(* The searches over prices: one listing whose price ranges over the       *)
(* multiples of 5 up to MaxPrice, in a neighborhood with and one without   *)
(* market averages, next to the inventories that raise or are empty.       *)
(***************************************************************************)
MaxPrice == 4000

InitBudget ==
    /\ \/ \E price \in {p \in 0..MaxPrice : p % 5 = 0},
             neighborhood \in {"Centretown", "Ottawa"}, bedrooms \in 1..3 :
               inventory =
                   <<ParseListing([neighborhood |-> neighborhood,
                                   price |-> price, bedrooms |-> bedrooms,
                                   sqft |-> IntSqft(500), amenities |-> {}],
                                  1)>>
       \/ \E n \in 0..2, bad \in 0..1 : inventory = Inventory(n, 0, bad)
    /\ market_averages = MarketAverages
    /\ safety_scores = calculate_safety_scores(load_crime_data(TRUE))
    /\ api_available = TRUE
    /\ neighborhood_amenities = NeighborhoodAmenities
    /\ travel_service = ServiceReplies
    /\ \E bedrooms \in {2, 5} :
           request = SearchRequest(0, MaxPrice, "", bedrooms, <<"low_price">>,
                                   "transit", None, None)
    /\ run = 0
    /\ pc = "idle"
    /\ has_work_location = FALSE
    /\ apartments = <<>>
    /\ i = 0
    /\ tasks = <<>>
    /\ pending = {}
    /\ slots = <<>>
    /\ recommendations = <<>>
    /\ calls = NoCalls
    /\ responses = <<>>
    /\ SearchOnly

SpecBudget == InitBudget /\ [][Next]_vars

\* C12: for every price and market average the budget analysis has
\* budget_score = clamp(70 - percentDiff, 0, 100), up to the conversion of
\* the score to an integer, with percentDiff = (price - market) / market *
\* 100, and is_good_deal exactly when percentDiff < -5; a price equal to
\* the market average scores 70 and is no good deal.
C12_BudgetFormula ==
    \A k \in 1..Len(recommendations) :
        LET budget == recommendations[k].rec.budget
            price == budget.monthly_rent
            market == budget.market_average
            clamped == Max(0, Min(100 * market, 170 * market - 100 * price))
        IN  /\ budget.budget_score * market - clamped < market
            /\ clamped - budget.budget_score * market < market
            /\ budget.is_good_deal <=> 100 * (price - market) < -5 * market
            /\ price = market =>
                   budget.budget_score = 70 /\ ~budget.is_good_deal

(***************************************************************************)
(* The searches over amenities: one listing whose amenities range over    *)
(* the sets of scraped amenity strings, requested with every list of at   *)
(* most MaxPriorities amenity tags.                                       *)
(***************************************************************************)
AmenityTags == {"pet_friendly", "parking", "laundry", "gym", "low_price"}

RECURSIVE ListsOver(_, _)
\* The lists of at most n elements of tags.
ListsOver(tags, n) ==
    IF n = 0 THEN {<<>>}
    ELSE LET shorter == ListsOver(tags, n - 1)
         IN  shorter \cup {Append(p, t) : p \in shorter, t \in tags}

InitAmenities ==
    /\ \/ \E amenities \in SUBSET {"pet friendly", "parking", "laundry", "gym"} :
               inventory =
                   <<ParseListing([neighborhood |-> "Centretown",
                                   price |-> 1600, bedrooms |-> 1,
                                   sqft |-> IntSqft(620),
                                   amenities |-> amenities], 1)>>
       \/ \E n \in 0..2, bad \in 0..1 : inventory = Inventory(n, 0, bad)
    /\ market_averages = MarketAverages
    /\ safety_scores = calculate_safety_scores(load_crime_data(TRUE))
    /\ api_available = TRUE
    /\ neighborhood_amenities = NeighborhoodAmenities
    /\ travel_service = ServiceReplies
    /\ \E priorities \in ListsOver(AmenityTags, MaxPriorities),
          bedrooms \in {1, 5} :
           request = SearchRequest(1500, 2500, "", bedrooms, priorities,
                                   "transit", None, None)
    /\ run = 0
    /\ pc = "idle"
    /\ has_work_location = FALSE
    /\ apartments = <<>>
    /\ i = 0
    /\ tasks = <<>>
    /\ pending = {}
    /\ slots = <<>>
    /\ recommendations = <<>>
    /\ calls = NoCalls
    /\ responses = <<>>
    /\ SearchOnly

SpecAmenities == InitAmenities /\ [][Next]_vars

\* 1 when the condition holds, else 0.
Indicator(cond) == IF cond THEN 1 ELSE 0

\* C13: the amenity score of every scored candidate is min(100, 50 + 20
\* for pets prioritized and allowed + 20 for parking prioritized and
\* included + 20 / 10 for laundry prioritized and in the unit / in the
\* building + 15 for a gym prioritized and present), also for each other
\* laundry type the apartment could have; a feature whose tag is not among
\* the priorities adds nothing; the score is in 50..100.
C13_AmenityFormula ==
    \A k \in 1..Len(recommendations) :
        LET apartment == recommendations[k].rec.apartment
            has(tag) == \E j \in 1..Len(request.priorities) :
                            request.priorities[j] = tag
            sum(laundry_type) ==
                50 + 20 * Indicator(has("pet_friendly")
                                    /\ apartment.pet_friendly)
                   + 20 * Indicator(has("parking")
                                    /\ apartment.parking_included)
                   + 20 * Indicator(has("laundry") /\ laundry_type = "in_unit")
                   + 10 * Indicator(has("laundry")
                                    /\ laundry_type = "in_building")
                   + 15 * Indicator(has("gym")
                                    /\ "gym" \in apartment.amenities)
        IN  /\ recommendations[k].scores.amenities
                   = Min(100, sum(apartment.laundry_type))
            /\ recommendations[k].scores.amenities \in 50..100
            /\ \A laundry_type \in {"in_unit", "in_building", "none"} :
                   calculate_amenity_score(
                       [apartment EXCEPT !.laundry_type = laundry_type],
                       request.priorities) = Min(100, sum(laundry_type))
            /\ ~(\E j \in 1..Len(request.priorities) :
                     request.priorities[j]
                         \in {"pet_friendly", "parking", "laundry", "gym"})
               => recommendations[k].scores.amenities = 50

\* A candidate that allows pets, includes parking and has in-unit laundry,
\* all three prioritized, scored 100 (50 + 60, capped); and one with
\* parking that is not prioritized scored without it.
C13_Witness ==
    \E k \in 1..Len(recommendations) :
        LET apartment == recommendations[k].rec.apartment
        IN  /\ apartment.pet_friendly
            /\ apartment.parking_included
            /\ apartment.laundry_type = "in_unit"
            /\ Len(request.priorities) = 3
            /\ \A tag \in {"pet_friendly", "parking", "laundry"} :
                   In(tag, request.priorities)
            /\ recommendations[k].scores.amenities = 100

(***************************************************************************)
(* The walkability analyses: WalkabilityAgent.analyze is called once, for *)
(* an apartment with or without coordinates, by an agent that has loaded  *)
(* at most MaxPlaces places at the distances of WalkDistances (300.0,     *)
(* 500.5, 800.0 and 800.9 metres from the apartment).                     *)
(***************************************************************************)
MaxPlaces == 3

WalkDistances == {3000, 5005, 8000, 8009}

PlaceCategories == {"park", "school", "grocery"}

\* The places of one category among the loaded ones, named by their
\* position in the data.
PlacesOf(category, loaded) ==
    LET named == [k \in 1..Len(loaded) |->
                     [name |-> k, category |-> loaded[k].category,
                      distance |-> loaded[k].distance]]
    IN  SelectSeq(named, LAMBDA place : place.category = category)

\* No search is running.
NoSearch ==
    /\ inventory = <<>>
    /\ market_averages = MarketAverages
    /\ safety_scores = calculate_safety_scores(load_crime_data(TRUE))
    /\ api_available = TRUE
    /\ neighborhood_amenities = NeighborhoodAmenities
    /\ travel_service = ServiceReplies
    /\ request = SearchRequest(1500, 2500, "", 1, <<>>, "transit", None, None)
    /\ run = 0
    /\ pc = "idle"
    /\ has_work_location = FALSE
    /\ apartments = <<>>
    /\ i = 0
    /\ tasks = <<>>
    /\ pending = {}
    /\ slots = <<>>
    /\ recommendations = <<>>
    /\ calls = NoCalls
    /\ responses = <<>>
    /\ endpoint = "search"

InitWalkability ==
    /\ NoSearch
    /\ \E loaded \in ListsOver([category : PlaceCategories,
                                distance : WalkDistances], MaxPlaces) :
           walkability_agent =
               [parks |-> PlacesOf("park", loaded),
                schools |-> PlacesOf("school", loaded),
                groceries |-> PlacesOf("grocery", loaded)]
    /\ walk_apartment \in {BareApartment, ParseListing(Catalog[1], 1)}
    /\ walkability = Empty
    /\ explained = Empty

\* WalkabilityAgent.analyze(walk_apartment) is awaited.
AnalyzeWalkability ==
    /\ walkability = Empty
    /\ walkability' = WalkabilityAnalyze(walkability_agent, walk_apartment)
    /\ UNCHANGED <<inventory, market_averages, safety_scores,
                   neighborhood_amenities, api_available, travel_service,
                   request, run, pc, has_work_location, apartments, i, tasks,
                   pending, slots, recommendations, calls, responses,
                   endpoint, walkability_agent, walk_apartment, explained>>

NextWalkability == AnalyzeWalkability

SpecWalkability == InitWalkability /\ [][NextWalkability]_vars

\* Every loaded place of the agent.
LoadedPlaces ==
    Range(walkability_agent.parks) \cup Range(walkability_agent.schools)
        \cup Range(walkability_agent.groceries)

\* C14: once WalkabilityAgent.analyze has returned, an apartment with
\* coordinates and no park, school or grocery within WALKING_DISTANCE has
\* walkability_score 5, and an apartment without coordinates has the
\* fallback: score 50, no place counted, summary "Location data
\* unavailable".
C14_NoPlacesAndNoCoordinates ==
    walkability # Empty =>
        /\ walk_apartment.place # "none"
           /\ (\A place \in LoadedPlaces :
                   place.distance > WALKING_DISTANCE * 10)
           => walkability.walkability_score = 5
        /\ walk_apartment.place = "none"
           => /\ walkability.walkability_score = 50
              /\ walkability.summary = <<"Location data unavailable">>
              /\ walkability.parks_nearby = 0
              /\ walkability.schools_nearby = 0
              /\ walkability.groceries_nearby = 0

\* An apartment with coordinates was analysed by an agent whose places, one
\* of each category, are all farther than WALKING_DISTANCE: the score is 5.
C14_Witness ==
    /\ walkability # Empty
    /\ walk_apartment.place # "none"
    /\ walkability_agent.parks # <<>>
    /\ walkability_agent.schools # <<>>
    /\ walkability_agent.groceries # <<>>
    /\ \A place \in LoadedPlaces : place.distance > WALKING_DISTANCE * 10
    /\ walkability.walkability_score = 5

\* Whether the TravelTime client gave the service no travel time at all
\* for this origin: the destination did not resolve, or every route call
\* returned nothing or raised.
NoTravelTimes(api, destination) ==
    \/ ~destination.is_tuple /\ api.geocoding.kind # "value"
    \/ \A mode \in {"public_transport", "driving", "cycling", "walking"} :
           api[mode].kind # "value"

\* C15: every commute analysis of a returned recommendation is a
\* CommuteAnalysis; for an apartment without coordinates it has score 50
\* and summary "Location unknown"; when the travel-time service is
\* unavailable, or returned nothing or raised for this origin, it is the
\* distance-based estimate of _fallback_analysis.
C15_CommuteFallback ==
    has_work_location =>
        \A k \in 1..Len(recommendations) :
            LET apartment == recommendations[k].rec.apartment
                commute == recommendations[k].rec.commute
                destination == Destination(request)
            IN  /\ commute.apartment_id = apartment.id
                /\ apartment.place = "none"
                   => /\ commute.commute_score = 50
                      /\ commute.summary = "Location unknown"
                /\ apartment.place # "none"
                   /\ (\/ ~api_available
                       \/ NoTravelTimes(travel_service[apartment.place],
                                        destination))
                   => commute = fallback_analysis(apartment, destination,
                                                  request.transport_mode)

(***************************************************************************)
(* The searches with a TravelTime client that never answers one of its    *)
(* calls for the origins at one place.                                    *)
(***************************************************************************)
MaxSlowInventory == 3

ClientCalls == {"geocoding", "public_transport", "driving", "cycling", "walking"}

InitTimeout ==
    /\ \E n \in 0..MaxSlowInventory, seed \in 0..(Len(Catalog) - 1),
          bad \in 0..1 :
            inventory = Inventory(n, seed, bad)
    /\ market_averages = MarketAverages
    /\ safety_scores = calculate_safety_scores(load_crime_data(TRUE))
    /\ api_available = TRUE
    /\ neighborhood_amenities = NeighborhoodAmenities
    /\ \E place \in DOMAIN ServiceReplies, call \in ClientCalls :
            travel_service =
                [ServiceReplies EXCEPT ![place] =
                    [ServiceReplies[place] EXCEPT ![call] = Hang]]
    /\ request \in Requests
    /\ run = 0
    /\ pc = "idle"
    /\ has_work_location = FALSE
    /\ apartments = <<>>
    /\ i = 0
    /\ tasks = <<>>
    /\ pending = {}
    /\ slots = <<>>
    /\ recommendations = <<>>
    /\ calls = NoCalls
    /\ responses = <<>>
    /\ SearchOnly

SpecTimeout == InitTimeout /\ [][Next]_vars

\* C16: a search returns a response also when a call to the travel-time
\* client never answers: it is never left waiting only for analyses that
\* will not complete (every awaited analysis is bounded by a timeout, so one
\* of them can always still complete).
C16_SearchReturns ==
    pc = "gather" /\ pending # {}
        => \E position \in pending : ~Hangs(tasks[position], apartments[i])

(***************************************************************************)
(* The requests by both endpoints: POST /api/v1/search takes any numbers, *)
(* POST /api/v1/chat builds the request of the numbers found in the       *)
(* message (ConversationAgent._detect_search_intent: digits only).        *)
(***************************************************************************)
\* HTTPException(status_code=400) of search_apartments.
BadRequest ==
    [status |-> "rejected", total_found |-> None, recommendations |-> <<>>]

\* (budget_min, budget_max, bedrooms) of the requests: the defaults of the
\* chat, a usual one, budget_min > budget_max, too many bedrooms; and by
\* the search endpoint also a negative budget and negative bedrooms.
ChatNumbers == {<<0, 3000, 1>>, <<1500, 2500, 2>>, <<2500, 1500, 1>>,
                <<1500, 2500, 7>>}

SearchNumbers == ChatNumbers \cup {<<-100, 2500, 1>>, <<-200, -100, 1>>,
                                   <<1500, 2500, -1>>}

InitEntry ==
    /\ \E n \in 0..MaxSlowInventory, seed \in 0..(Len(Catalog) - 1),
          bad \in 0..1 :
            inventory = Inventory(n, seed, bad)
    /\ market_averages = MarketAverages
    /\ safety_scores = calculate_safety_scores(load_crime_data(TRUE))
    /\ api_available = TRUE
    /\ neighborhood_amenities = NeighborhoodAmenities
    /\ travel_service = ServiceReplies
    /\ endpoint \in {"search", "chat"}
    /\ \E numbers \in IF endpoint = "chat" THEN ChatNumbers ELSE SearchNumbers,
          work_address \in {"", "99 Bank Street"} :
            request = SearchRequest(numbers[1], numbers[2], work_address,
                                    numbers[3], <<"short_commute">>,
                                    "transit", None, None)
    /\ run = 0
    /\ pc = "idle"
    /\ has_work_location = FALSE
    /\ apartments = <<>>
    /\ i = 0
    /\ tasks = <<>>
    /\ pending = {}
    /\ slots = <<>>
    /\ recommendations = <<>>
    /\ calls = NoCalls
    /\ responses = <<>>
    /\ walkability_agent = NoPlaces
    /\ walk_apartment = BareApartment
    /\ walkability = Empty
    /\ explained = Empty

\* search_apartments raises HTTPException(400) for a request that fails
\* its checks (lines 209-216).
Reject ==
    /\ pc \in {"idle", "rejected"}
    /\ ~Admits(endpoint, request)
    /\ run < MaxRuns
    /\ run' = run + 1
    /\ responses' = Append(responses, BadRequest)
    /\ pc' = "rejected"
    /\ UNCHANGED <<agents, has_work_location, apartments, i, tasks, pending,
                   slots, recommendations, calls>>

NextEntry == Next \/ Reject

SpecEntry == InitEntry /\ [][NextEntry]_vars

\* C17: a request with budget_min > budget_max, a negative budget or a
\* bedroom count outside 0..5 is rejected with an error before anything is
\* fetched or scored, by whichever endpoint it came in: no search is ever
\* under way for it, and every response to it is the rejection.
C17_InvalidRejected ==
    ~Valid(request) =>
        /\ pc \in {"idle", "rejected"}
        /\ apartments = <<>>
        /\ calls = NoCalls
        /\ \A r \in 1..Len(responses) : responses[r] = BadRequest

\* The weighted sum of a pair's axis scores as the fraction num / den, with
\* 0 for the commute term when there is no commute score.
WeightedSum(scores, priorities, has_commute) ==
    LET w == Weights(scores.commute, priorities, has_commute)
        safe_commute == IF scores.commute # None /\ has_commute
                        THEN scores.commute ELSE 0
    IN  [num |-> safe_commute * w.num.commute
                 + scores.neighborhood * w.num.neighborhood
                 + scores.budget * w.num.budget
                 + scores.amenities * w.num.amenities,
         den |-> w.den]

\* C18: the overall score of every recommendation is the weighted sum of
\* its four axis scores rounded to the nearest integer: it is no farther
\* than one half from the sum.
C18_RoundedToNearest ==
    \A k \in 1..Len(recommendations) :
        LET sum == WeightedSum(recommendations[k].scores, request.priorities,
                               has_work_location)
            overall == recommendations[k].rec.overall_score
        IN  /\ 2 * (overall * sum.den - sum.num) <= sum.den
            /\ 2 * (sum.num - overall * sum.den) <= sum.den

\* The tags of the priority-to-axis mapping, and two it does not know.
MappedTags ==
    {"short_commute", "safe_area", "walkable", "nightlife", "quiet_area",
     "low_price", "parking", "gym", "laundry", "pet_friendly"}

OtherTags == {"good_transit", "quiet"}

\* The axis a tag maps to, as the mapping is written: short_commute to
\* commute, and so on; "none" for a tag it does not name.
AxisOfTag(tag) ==
    CASE tag = "short_commute" -> "commute"
      [] tag \in {"safe_area", "walkable", "nightlife", "quiet_area"}
            -> "neighborhood"
      [] tag = "low_price" -> "budget"
      [] tag \in {"parking", "gym", "laundry", "pet_friendly"} -> "amenities"
      [] OTHER -> "none"

\* The same mapping, with short_commute mapped only when a destination was
\* given.
AxisOfTagWith(tag, has_commute) ==
    IF tag = "short_commute" /\ ~has_commute THEN "none" ELSE AxisOfTag(tag)

\* Base weights plus, for each index i in 0..2 of the list, 0.15 * (3 - i) / 3
\* on the axis that axis_of gives for priorities[i], in hundredths.
BoostedWeights(commute_score, priorities, has_commute, axis_of(_)) ==
    LET base == IF has_commute /\ commute_score # None
                THEN [axis \in Range(Axes) |-> 25]
                ELSE [commute |-> 0, neighborhood |-> 35, budget |-> 35,
                      amenities |-> 30]
        term(axis, j) == IF j < Len(priorities)
                            /\ axis_of(priorities[j + 1]) = axis
                         THEN (15 * (3 - j)) \div 3 ELSE 0
    IN  [axis \in Range(Axes) |->
            base[axis] + term(axis, 0) + term(axis, 1) + term(axis, 2)]

\* The weights before renormalization agree with BoostedWeights under
\* axis_of for the priorities of the request, for each single tag, and
\* when a fourth priority is added to three.
BoostsFollow(commute_score, has_commute, axis_of(_)) ==
    /\ Weights(commute_score, request.priorities, has_commute).num
           = BoostedWeights(commute_score, request.priorities, has_commute,
                            axis_of)
    /\ \A tag \in MappedTags \cup OtherTags :
           /\ Weights(commute_score, <<tag>>, has_commute).num
                  = BoostedWeights(commute_score, <<tag>>, has_commute,
                                   axis_of)
           /\ Len(request.priorities) >= 3
              => Weights(commute_score, Append(request.priorities, tag),
                         has_commute).num
                     = Weights(commute_score, request.priorities,
                               has_commute).num

\* C19 as claimed: for every scored candidate the weights before
\* renormalization are the base weights plus, for each index i in 0..2, the
\* boost 0.15 * (3 - i) / 3 on the axis priorities[i] maps to (short_commute
\* to commute, ...); tags outside the mapping add nothing but occupy their
\* index; priorities from index 3 on change nothing.
C19_BoostsAsClaimed ==
    \A k \in 1..Len(recommendations) :
        BoostsFollow(recommendations[k].scores.commute, has_work_location,
                     AxisOfTag)

\* C19 as amended: the same, with short_commute boosting the commute weight
\* only when a destination was given; without one it adds nothing but
\* still occupies its index.
C19_BoostsWithDestination ==
    \A k \in 1..Len(recommendations) :
        LET axis_of(tag) == AxisOfTagWith(tag, has_work_location)
        IN  BoostsFollow(recommendations[k].scores.commute,
                         has_work_location, axis_of)

\* A search without destination scored a candidate with the priorities
\* good_transit (unknown: nothing for index 0), short_commute (nothing
\* without destination) and low_price, which boosts budget by the 0.05 of
\* index 2.
C19_Witness ==
    /\ recommendations # <<>>
    /\ ~has_work_location
    /\ request.priorities = <<"good_transit", "short_commute", "low_price">>
    /\ Weights(recommendations[1].scores.commute, request.priorities,
               has_work_location).num
           = [commute |-> 0, neighborhood |-> 35, budget |-> 40,
              amenities |-> 30]

\* The fixed label of each axis.
AxisLabel(axis) ==
    CASE axis = "commute" -> "Best for Commuters"
      [] axis = "neighborhood" -> "Best Neighborhood"
      [] axis = "budget" -> "Best Value"
      [] axis = "amenities" -> "Best Amenities"

\* C20: in the ranked list of a finished search, the recommendation ranked
\* 1 has headline "Best Overall Match" and no analysed candidate has a
\* higher overall score; every other has the label of the axis with the
\* highest score among neighborhood, budget, amenities and, only when a
\* destination was given, commute, the first such axis in the order
\* commute, neighborhood, budget, amenities; without destination no
\* headline is "Best for Commuters".
C20_Headlines ==
    pc = "done" =>
        \A k \in 1..Len(recommendations) :
            LET rec == recommendations[k].rec
                scores == recommendations[k].scores
                order == <<"commute", "neighborhood", "budget", "amenities">>
                among == {a \in 1..4 : a = 1 => has_work_location}
                highest(a) == /\ a \in among
                              /\ \A b \in among :
                                     scores[order[b]] <= scores[order[a]]
            IN  /\ rec.rank = 1
                   => /\ rec.headline = "Best Overall Match"
                      /\ \A j \in 1..Len(recommendations) :
                             recommendations[j].rec.overall_score
                                 <= rec.overall_score
                /\ rec.rank # 1
                   => \E a \in among :
                          /\ highest(a)
                          /\ \A b \in 1..(a - 1) : ~highest(b)
                          /\ rec.headline = AxisLabel(order[a])
                /\ ~has_work_location
                   => rec.headline # "Best for Commuters"

\* A finished search with a destination ranked, below the first, a
\* candidate whose two highest axis scores are equal, and labelled it by
\* the earlier axis.
C20_Witness ==
    /\ pc = "done"
    /\ has_work_location
    /\ \E k \in 2..Len(recommendations) :
           LET scores == recommendations[k].scores
           IN  \E a, b \in 1..4 :
                   /\ a < b
                   /\ scores[Axes[a]] = scores[Axes[b]]
                   /\ \A c \in 1..4 : scores[Axes[c]] <= scores[Axes[a]]
                   /\ recommendations[k].rec.headline = AxisLabel(Axes[a])

\* The square footages a listing is compared under.
SqftValues == {400, 700, 1200}

\* The (recommendation, scores) pair search() makes of an apartment in the
\* current state: each awaited analysis at its position, then lines 131-190.
PairOf(apartment) ==
    LET awaited == TasksFor(has_work_location)
    IN  Recommend(apartment,
                  [p \in 1..Len(awaited) |-> Analyze(awaited[p], apartment)],
                  request, has_work_location)

\* C21: the space value score never feeds into the ranking: a candidate
\* that differs from an analysed one only in its square footage gets the
\* same budget_score and the same overall_score, whatever the priorities.
C21_SqftNotRanked ==
    \A k \in 1..Len(recommendations) :
        \A sqft \in SqftValues :
            LET rec == recommendations[k].rec
                other == PairOf([rec.apartment EXCEPT !.sqft = IntSqft(sqft)])
            IN  /\ other.rec.budget.budget_score = rec.budget.budget_score
                /\ other.rec.overall_score = rec.overall_score

\* A search with "low_price" first in the priorities has analysed a
\* candidate whose space value score and estimated utilities would both be
\* different at another square footage.
C21_Witness ==
    /\ pc = "done"
    /\ Len(request.priorities) > 0
    /\ request.priorities[1] = "low_price"
    /\ \E k \in 1..Len(recommendations) :
           \E sqft \in SqftValues :
               LET rec == recommendations[k].rec
                   other == PairOf([rec.apartment
                                       EXCEPT !.sqft = IntSqft(sqft)])
               IN  /\ other.rec.budget.space_value_score
                          # rec.budget.space_value_score
                   /\ other.rec.budget.estimated_utilities
                          # rec.budget.estimated_utilities

(***************************************************************************)
(* The explanations: generate_match_reasons and generate_concerns are     *)
(* called once, for an apartment with any combination of the attributes   *)
(* they read, scores on both sides of each threshold they compare with,   *)
(* and any list of at most MaxReasonTags of the priorities they look for. *)
(***************************************************************************)
MaxReasonTags == 2

ReasonTags == {"pet_friendly", "parking", "laundry"}

CommuteInputs == {None, 49, 50, 59, 60, 79, 80}

BudgetInputs == {49, 50, 59, 60, 79, 80}

NeighborhoodInputs == {49, 50, 79, 80}

ExplainedApartments ==
    {[BareApartment EXCEPT !.neighborhood = "Centretown",
                           !.pet_friendly = pets,
                           !.parking_included = parking,
                           !.laundry_type = laundry] :
        pets \in BOOLEAN, parking \in BOOLEAN,
        laundry \in {"in_unit", "in_building", "none"}}

InitReasons ==
    /\ NoSearch
    /\ walkability_agent = NoPlaces
    /\ walk_apartment = BareApartment
    /\ walkability = Empty
    /\ explained = Empty

\* Lines 181-188 of search() for one candidate: both lists are generated.
Explain ==
    /\ explained = Empty
    /\ \E apartment \in ExplainedApartments,
          commute \in CommuteInputs,
          budget \in BudgetInputs,
          neighborhood \in NeighborhoodInputs,
          priorities \in ListsOver(ReasonTags, MaxReasonTags) :
            LET scores == [commute |-> commute,
                           neighborhood |-> neighborhood,
                           budget |-> budget,
                           amenities |-> calculate_amenity_score(apartment,
                                                                 priorities)]
            IN  explained' =
                    [apartment |-> apartment,
                     scores |-> scores,
                     priorities |-> priorities,
                     match_reasons |->
                         generate_match_reasons(apartment, scores, priorities),
                     concerns |->
                         generate_concerns(apartment, scores, priorities)]
    /\ UNCHANGED <<inventory, market_averages, safety_scores,
                   neighborhood_amenities, api_available, travel_service,
                   request, run, pc, has_work_location, apartments, i, tasks,
                   pending, slots, recommendations, calls, responses,
                   endpoint, walkability_agent, walk_apartment, walkability>>

NextReasons == Explain

SpecReasons == InitReasons /\ [][NextReasons]_vars

\* The place of a reason in the generation order: commute, budget,
\* neighborhood, pet, parking, laundry.
ReasonPlace(reason) ==
    CASE reason \in {"Excellent commute time", "Good commute time"} -> 1
      [] reason \in {"Great value for money", "Reasonably priced"} -> 2
      [] reason = "Pet-friendly" -> 4
      [] reason = "Parking included" -> 5
      [] reason = "In-unit laundry" -> 6
      [] OTHER -> 3

\* The place of a concern in the same order.
ConcernPlace(concern) ==
    CASE concern = "Longer commute" -> 1
      [] concern = "Above market price" -> 2
      [] concern = "Neighborhood may not match preferences" -> 3
      [] concern = "No pets allowed" -> 4
      [] concern = "No parking included" -> 5
      [] concern = "No laundry facilities" -> 6

\* The places for which a reason is due, by the scores, the attributes of
\* the apartment and the priorities.
ReasonsDue(e) ==
    {place \in 1..6 :
        CASE place = 1 -> e.scores.commute # None /\ e.scores.commute >= 60
          [] place = 2 -> e.scores.budget >= 60
          [] place = 3 -> e.scores.neighborhood >= 80
          [] place = 4 -> In("pet_friendly", e.priorities)
                          /\ e.apartment.pet_friendly
          [] place = 5 -> In("parking", e.priorities)
                          /\ e.apartment.parking_included
          [] place = 6 -> e.apartment.laundry_type = "in_unit"}

\* The places for which a concern is due.
ConcernsDue(e) ==
    {place \in 1..6 :
        CASE place = 1 -> e.scores.commute # None /\ e.scores.commute < 50
          [] place = 2 -> e.scores.budget < 50
          [] place = 3 -> e.scores.neighborhood < 50
          [] place = 4 -> In("pet_friendly", e.priorities)
                          /\ ~e.apartment.pet_friendly
          [] place = 5 -> In("parking", e.priorities)
                          /\ ~e.apartment.parking_included
          [] place = 6 -> In("laundry", e.priorities)
                          /\ e.apartment.laundry_type = "none"}

\* Whether the places of a returned list are the first `cap` of the due
\* places, in ascending order.
FirstOfDue(places, due, cap) ==
    /\ Len(places) <= cap
    /\ \A k \in 1..(Len(places) - 1) : places[k] < places[k + 1]
    /\ Range(places) \subseteq due
    /\ \A place \in due \ Range(places) :
           /\ Len(places) = cap
           /\ \A k \in 1..Len(places) : places[k] < place

\* C22: generate_match_reasons returns at most 4 reasons and
\* generate_concerns at most 3 concerns, each the first entries of what is
\* due in the order commute, budget, neighborhood, pet, parking, laundry;
\* a commute reason or concern appears only when there is a commute score.
C22_ReasonsAndConcerns ==
    explained # Empty =>
        LET reasons == [k \in 1..Len(explained.match_reasons) |->
                            ReasonPlace(explained.match_reasons[k])]
            concerns == [k \in 1..Len(explained.concerns) |->
                            ConcernPlace(explained.concerns[k])]
        IN  /\ Len(explained.match_reasons) <= 4
            /\ Len(explained.concerns) <= 3
            /\ FirstOfDue(reasons, ReasonsDue(explained), 4)
            /\ FirstOfDue(concerns, ConcernsDue(explained), 3)
            /\ explained.scores.commute = None
               => 1 \notin Range(reasons) /\ 1 \notin Range(concerns)

\* The cap cut a list: five reasons were due, among them one for the
\* commute, four were returned, and a concern was returned with them.
C22_Witness ==
    /\ explained # Empty
    /\ Cardinality(ReasonsDue(explained)) >= 5
    /\ Len(explained.match_reasons) = 4
    /\ explained.match_reasons[1] = "Good commute time"
    /\ explained.concerns # <<>>

\* The step curve as stated: <=10 -> 100, <=20 -> 90, <=30 -> 75,
\* <=45 -> 60, <=60 -> 40, else 20.
StepCurve(minutes) ==
    CASE minutes <= 10 -> 100
      [] minutes > 10 /\ minutes <= 20 -> 90
      [] minutes > 20 /\ minutes <= 30 -> 75
      [] minutes > 30 /\ minutes <= 45 -> 60
      [] minutes > 45 /\ minutes <= 60 -> 40
      [] OTHER -> 20

\* C23: every commute analysis made for an apartment with coordinates and
\* a destination, whether from the travel-time service or from the
\* distance-based fallback, has commute_score equal to the step curve
\* applied to its best_time.
C23_OneCurve ==
    has_work_location =>
        \A k \in 1..Len(recommendations) :
            LET apartment == recommendations[k].rec.apartment
                commute == recommendations[k].rec.commute
            IN  apartment.place # "none"
                    => commute.commute_score = StepCurve(commute.best_time)

(***************************************************************************)
(* The searches over neighborhoods: inventories starting at every entry   *)
(* of the catalog (Centretown and Vanier are in both tables of the        *)
(* NeighborhoodAgent, Kanata only in the safety scores, Ottawa in         *)
(* neither), with and without crime data, requested with every list of    *)
(* at most MaxPriorities neighborhood tags.                               *)
(***************************************************************************)
NeighborhoodTags == {"nightlife", "quiet_area", "safe_area"}

InitNeighborhood ==
    /\ \E n \in 0..2, seed \in 0..(Len(Catalog) - 1), bad \in 0..1 :
            inventory = Inventory(n, seed, bad)
    /\ market_averages = MarketAverages
    /\ \E world \in Worlds :
            /\ safety_scores =
                   calculate_safety_scores(load_crime_data(world.crime_files))
            /\ api_available = world.credentials
    /\ neighborhood_amenities = NeighborhoodAmenities
    /\ travel_service = ServiceReplies
    /\ \E priorities \in ListsOver(NeighborhoodTags, MaxPriorities) :
           request = SearchRequest(1500, 2500, "", 1, priorities,
                                   "transit", None, None)
    /\ run = 0
    /\ pc = "idle"
    /\ has_work_location = FALSE
    /\ apartments = <<>>
    /\ i = 0
    /\ tasks = <<>>
    /\ pending = {}
    /\ slots = <<>>
    /\ recommendations = <<>>
    /\ calls = NoCalls
    /\ responses = <<>>
    /\ SearchOnly

SpecNeighborhood == InitNeighborhood /\ [][Next]_vars

\* C24: the neighborhood_score of every analysed candidate is the integer
\* mean of safety and walkability, with nightlife counted exactly when
\* "nightlife" is in the priorities and quiet exactly when "quiet_area"
\* is; a neighborhood absent from a table has the default sub-scores
\* (safety 70; walkability 65, nightlife 50, quiet 65), and its analysis
\* returns like any other.
C24_NeighborhoodMean ==
    \A k \in 1..Len(recommendations) :
        LET name == recommendations[k].rec.apartment.neighborhood
            n == recommendations[k].rec.neighborhood
            nightlife == \E p \in 1..Len(request.priorities) :
                            request.priorities[p] = "nightlife"
            quiet == \E p \in 1..Len(request.priorities) :
                        request.priorities[p] = "quiet_area"
            total == n.safety_score + n.walkability_score
                     + (IF nightlife THEN n.nightlife_score ELSE 0)
                     + (IF quiet THEN n.quiet_score ELSE 0)
            count == 2 + (IF nightlife THEN 1 ELSE 0)
                       + (IF quiet THEN 1 ELSE 0)
        IN  /\ n.neighborhood_score * count <= total
            /\ total < (n.neighborhood_score + 1) * count
            /\ name \notin DOMAIN safety_scores => n.safety_score = 70
            /\ name \in DOMAIN safety_scores
               => n.safety_score = safety_scores[name]
            /\ name \notin DOMAIN neighborhood_amenities
               => /\ n.walkability_score = 65
                  /\ n.nightlife_score = 50
                  /\ n.quiet_score = 65
            /\ name \in DOMAIN neighborhood_amenities
               => /\ n.walkability_score
                        = neighborhood_amenities[name].walkability_score
                  /\ n.nightlife_score
                        = neighborhood_amenities[name].nightlife_score
                  /\ n.quiet_score = neighborhood_amenities[name].quiet_score

\* A search with crime data and with "nightlife" but not "quiet_area" in
\* the priorities returned a candidate of a neighborhood in neither table
\* and one of a neighborhood in both, whose mean of three is not whole.
C24_Witness ==
    /\ pc = "done"
    /\ safety_scores # <<>>
    /\ \E p \in 1..Len(request.priorities) : request.priorities[p] = "nightlife"
    /\ \A p \in 1..Len(request.priorities) :
           request.priorities[p] # "quiet_area"
    /\ \E j, k \in 1..Len(recommendations) :
           LET a == recommendations[j].rec
               b == recommendations[k].rec
           IN  /\ a.apartment.neighborhood \notin DOMAIN safety_scores
               /\ a.apartment.neighborhood \notin DOMAIN neighborhood_amenities
               /\ a.neighborhood.neighborhood_score = 61
               /\ b.apartment.neighborhood \in DOMAIN safety_scores
               /\ b.apartment.neighborhood \in DOMAIN neighborhood_amenities
               /\ (b.neighborhood.safety_score
                   + b.neighborhood.walkability_score
                   + b.neighborhood.nightlife_score) % 3 # 0

\* Whether the request names a destination: a non-empty work address or a
\* pinned pair of coordinates.
Wanted(req) ==
    req.work_address # "" \/ (req.pinned_lat # None /\ req.pinned_lng # None)

\* C25: in a search that found apartments the commute analysis has been
\* invoked once for each candidate begun if the request has a non-empty
\* work address or a pinned pair, and not at all otherwise; when both are
\* present every commute analysis is the one of the pinned pair.
C25_CommuteIffDestination ==
    pc \in {"gather", "done", "raised"} /\ apartments # <<>> =>
        /\ calls.neighborhood = i
        /\ calls.budget = i
        /\ calls.commute = IF Wanted(request) THEN i ELSE 0
        /\ \A k \in 1..Len(recommendations) :
               LET rec == recommendations[k].rec
                   pinned == TupleDestination(<<request.pinned_lat,
                                                request.pinned_lng>>)
               IN  /\ ~Wanted(request) => rec.commute.commute_score = None
                   /\ Wanted(request) => rec.commute.commute_score # None
                   /\ request.work_address # ""
                      /\ request.pinned_lat # None /\ request.pinned_lng # None
                      => rec.commute =
                            CommuteAnalyze(api_available,
                                calculate_all_travel_times_flexible(
                                    travel_service[rec.apartment.place],
                                    pinned),
                                rec.apartment, pinned, request.transport_mode)

\* A finished search whose request has both a work address and a pinned
\* pair: the commute analysis of a candidate is not the one the address
\* would have given.
C25_Witness ==
    /\ pc = "done"
    /\ request.work_address # ""
    /\ request.pinned_lat # None /\ request.pinned_lng # None
    /\ \E k \in 1..Len(recommendations) :
           LET rec == recommendations[k].rec
               address == StrDestination(request.work_address)
           IN  rec.commute #
                   CommuteAnalyze(api_available,
                       calculate_all_travel_times_flexible(
                           travel_service[rec.apartment.place], address),
                       rec.apartment, address, request.transport_mode)

\* C26: in every step of a search, a recommendation is created only when
\* every analysis awaited for its candidate has completed; the analyses of
\* a candidate are started (counted in calls) only when the analyses and
\* the recommendations of all candidates before it are complete; and the
\* list is ranked only when it holds a recommendation for every candidate
\* found.
C26_AwaitScoreSort ==
    [][/\ recommendations' # recommendations /\ recommendations' # <<>>
          => /\ pending = {}
             /\ \A p \in 1..Len(slots) : slots[p] # Empty
             /\ Len(recommendations') = i
             /\ \E k \in 1..i :
                    recommendations'[k].rec.apartment = apartments[i]
       /\ calls'.neighborhood = calls.neighborhood + 1
          => /\ pc = "gather" => pending = {}
             /\ pending' = 1..Len(tasks')
             /\ Len(recommendations') = i' - 1
             /\ \A k \in 1..Len(recommendations') :
                    /\ recommendations'[k].rec.overall_score \in 0..100
                    /\ recommendations'[k].rec.apartment = apartments'[k]
       /\ (\E k \in 1..Len(recommendations') :
               recommendations'[k].rec.rank # 0)
          /\ recommendations' # recommendations
          => /\ Len(recommendations') = Len(apartments)
             /\ pending = {}
             /\ pc' = "done"
      ]_vars

\* The second candidate of a search with a destination is being analysed:
\* one of its three analyses has completed, two are pending, and the
\* recommendation of the first candidate exists, unranked.
C26_Witness ==
    /\ pc = "gather"
    /\ has_work_location
    /\ i = 2
    /\ Cardinality(pending) = 2
    /\ Len(recommendations) = 1
    /\ recommendations[1].rec.rank = 0
    /\ recommendations[1].rec.apartment = apartments[1]

\* C27: no step of a search writes to a lookup table of the agents: the
\* market averages, the safety scores and the neighborhood amenities stay
\* what they were after construction, and so do the listings: every
\* candidate found or recommended is a listing of the inventory as it was
\* loaded.
C27_TablesReadOnly ==
    [][/\ market_averages' = market_averages
       /\ market_averages = MarketAverages
       /\ safety_scores' = safety_scores
       /\ neighborhood_amenities' = neighborhood_amenities
       /\ neighborhood_amenities = NeighborhoodAmenities
       /\ inventory' = inventory
       /\ \A k \in 1..Len(apartments') :
              apartments'[k] \in Range(inventory)
       /\ \A k \in 1..Len(recommendations') :
              recommendations'[k].rec.apartment \in Range(inventory)
      ]_vars

\* Two searches have finished, and the second recommended a candidate
\* whose key is in neither the market averages nor the safety scores nor
\* the neighborhood amenities: the tables are still as constructed.
C27_Witness ==
    /\ pc = "done"
    /\ Len(responses) = 2
    /\ market_averages = MarketAverages
    /\ neighborhood_amenities = NeighborhoodAmenities
    /\ \E k \in 1..Len(recommendations) :
           LET apartment == recommendations[k].rec.apartment
           IN  /\ <<apartment.neighborhood, apartment.bedrooms>>
                      \notin DOMAIN market_averages
               /\ apartment.neighborhood \notin DOMAIN safety_scores
               /\ apartment.neighborhood \notin DOMAIN neighborhood_amenities
               /\ apartment \in Range(inventory)

\* C28: in the score of a walkability analysis the grocery component is
\* between 0 and 40 points, the park component between 0 and 35, the
\* school component between 0 and 25, and the total is in 0..100.
C28_ComponentRanges ==
    walkability # Empty /\ walk_apartment.place # "none" =>
        LET parks == find_nearby_places(walkability_agent.parks)
            schools == find_nearby_places(walkability_agent.schools)
            groceries == find_nearby_places(walkability_agent.groceries)
        IN  /\ GroceryScore(groceries) \in 0..40
            /\ ParkScore(parks) \in 0..35
            /\ SchoolScore(schools) \in 0..25
            /\ walkability.walkability_score
                   = calculate_score(parks, schools, groceries)
            /\ walkability.walkability_score \in 0..100

\* How far around the price of a listing the scores are compared.
PriceStep == 5

\* C29: for the market average of an analysed listing, the budget score
\* does not rise as the price rises: over the prices from PriceStep below
\* the listing's to PriceStep above it, each price has a score no higher
\* than the price one dollar lower, and the listing's own score is the one
\* of its price.
C29_BudgetScoreMonotone ==
    pc = "done" =>
        \A k \in 1..Len(recommendations) :
            LET budget == recommendations[k].rec.budget
                price == budget.monthly_rent
                market == budget.market_average
            IN  /\ market > 0
                /\ budget.budget_score = calculate_budget_score(price, market)
                /\ \A q \in Max(1, price - PriceStep + 1)..(price + PriceStep) :
                       calculate_budget_score(q, market)
                           <= calculate_budget_score(q - 1, market)

\* A listing was scored 0 by the truncation of a fraction (its price is
\* less than 70 percent above the market average), and PriceStep dollars
\* lower the score is above 0.
C29_Witness ==
    /\ pc = "done"
    /\ \E k \in 1..Len(recommendations) :
           LET budget == recommendations[k].rec.budget
               price == budget.monthly_rent
               market == budget.market_average
           IN  /\ budget.budget_score = 0
               /\ price >= PriceStep
               /\ calculate_budget_score(price - PriceStep, market) > 0
               /\ 100 * (market - price) > -70 * market

\* Whether a list handed to the scoring step holds exactly the loaded
\* places within WALKING_DISTANCE, each at most WALKING_DISTANCE metres
\* away, in ascending order of distance_m.
NearbySorted(nearby, loaded) ==
    /\ \A k \in 1..Len(nearby) : nearby[k].distance_m <= WALKING_DISTANCE
    /\ \A k \in 1..(Len(nearby) - 1) :
           nearby[k].distance_m <= nearby[k + 1].distance_m
    /\ {nearby[k].name : k \in 1..Len(nearby)} =
           {place.name : place \in
               {p \in Range(loaded) : p.distance <= WALKING_DISTANCE * 10}}
    /\ Len(nearby) =
           Cardinality({p \in Range(loaded) :
                           p.distance <= WALKING_DISTANCE * 10})

\* C30: every list WalkabilityAgent.analyze hands to the scoring step holds
\* only places within 800 metres, in ascending order of distance, so the
\* first entry of a non-empty list is the closest place, at most 800 metres
\* away, and the points of each category are never those of the last
\* band (15 for groceries, 10 for parks, 10 for schools).
C30_NearbyWithinAndSorted ==
    walkability # Empty /\ walk_apartment.place # "none" =>
        LET parks == find_nearby_places(walkability_agent.parks)
            schools == find_nearby_places(walkability_agent.schools)
            groceries == find_nearby_places(walkability_agent.groceries)
            bonus(nearby) == IF Len(nearby) - 1 < 5 THEN Len(nearby) - 1 ELSE 5
        IN  /\ NearbySorted(parks, walkability_agent.parks)
            /\ NearbySorted(schools, walkability_agent.schools)
            /\ NearbySorted(groceries, walkability_agent.groceries)
            /\ walkability.parks_nearby = Len(parks)
            /\ walkability.schools_nearby = Len(schools)
            /\ walkability.groceries_nearby = Len(groceries)
            /\ parks # <<>>
               => /\ walkability.closest_park = parks[1]
                  /\ ParkScore(parks) - bonus(parks) \in {35, 28, 20}
            /\ schools # <<>>
               => /\ walkability.closest_school = schools[1]
                  /\ SchoolScore(schools) \in {25, 18}
            /\ groceries # <<>>
               => /\ walkability.closest_grocery = groceries[1]
                  /\ GroceryScore(groceries) - bonus(groceries) \in {40, 35, 25}

\* An apartment with coordinates was analysed by an agent whose groceries
\* were loaded farthest first, one of them just beyond WALKING_DISTANCE:
\* two are nearby and the closest is the one loaded second.
C30_Witness ==
    /\ walkability # Empty
    /\ walk_apartment.place # "none"
    /\ Len(walkability_agent.groceries) = 3
    /\ walkability_agent.groceries[1].distance = WALKING_DISTANCE * 10
    /\ walkability_agent.groceries[2].distance < WALKING_DISTANCE * 10
    /\ walkability_agent.groceries[3].distance > WALKING_DISTANCE * 10
    /\ walkability.groceries_nearby = 2
    /\ walkability.closest_grocery.name = walkability_agent.groceries[2].name

====
